---- MODULE Spec2Model ----
(***************************************************************************)
(* The BPX section table (core/section.rs), the read pipeline that fills   *)
(* it (core/decoder.rs) and the in-memory section buffer                   *)
(* (core/data/memory.rs).                                                  *)
(*                                                                         *)
(* u32 values are written as integers; a u32 that wrapped below zero is    *)
(* written as its negative residue (-1 stands for 2^32 - 1), which is      *)
(* exact for the +1 / -1 / equality operations the table performs.         *)
(***************************************************************************)
EXTENDS Integers, Sequences, FiniteSets, TLC

\* ---------------------------------------------------------------- bounds
MaxHandle == 3         \* create is enabled while next_handle < MaxHandle
MaxInitSections == 2   \* largest section_num of an opened file
MaxBuf == 1            \* caller writes keep a payload within MaxBuf bytes
MaxWrap == 1           \* invalid removes stop once count wrapped MaxWrap below 0
MaxRecords == 2        \* most section header records in a file that is opened

\* ------------------------------------------------------------- constants
FLAG_CHECK_WEAK == 1
FLAG_CHECK_CRC32 == 2
FLAG_COMPRESS_XZ == 4
FLAG_COMPRESS_ZLIB == 8
READ_BLOCK_SIZE == 8192

HasFlag(flags, bit) == (flags \div bit) % 2 = 1

Min(a, b) == IF a < b THEN a ELSE b
Max(a, b) == IF a > b THEN a ELSE b

\* ------------------------------------------------- the bytes of the file
\* Payload region of the opened backend; SectionHeader.pointer indexes it
\* from 0.
BackendBytes == <<1, 2, 1>>

Header(ty, flags, pointer, size, csize, chksum) ==
    [ty |-> ty, flags |-> flags, pointer |-> pointer, size |-> size,
     csize |-> csize, chksum |-> chksum]

\* Section headers a file may carry: a raw payload whose weak checksum
\* matches, a well-formed XZ stream whose weak checksum does not match, and
\* a malformed XZ stream.
ParsedHeaders ==
    { Header(0, FLAG_CHECK_WEAK, 0, 2, 2, 3),
      Header(1, FLAG_CHECK_WEAK + FLAG_COMPRESS_XZ, 0, 1, 2, 0),
      Header(0, FLAG_COMPRESS_XZ, 1, 1, 1, 0) }

\* Headers handed to create (SectionHeaderBuilder output: nothing stored yet).
CreateHeaders == { Header(0, 0, 0, 0, 0, 0), Header(1, FLAG_CHECK_WEAK, 0, 0, 0, 0) }

\* ------------------------------------------------ InMemorySection buffer
NewBuffer == [byte_buf |-> <<>>, position |-> 0, cur_size |-> 0]

\* Cursor<Vec<u8>>::write: overwrite from position, zero-fill a gap, grow.
CursorWrite(vec, pos, bytes) ==
    [i \in 1..Max(Len(vec), pos + Len(bytes)) |->
        IF i > pos /\ i <= pos + Len(bytes) THEN bytes[i - pos]
        ELSE IF i <= Len(vec) THEN vec[i]
        ELSE 0]

SizeAfterWriteAlways(cur_size, position) == position

\* `if self.byte_buf.position() as usize >= self.cur_size`
SizeAfterWrite(cur_size, position) ==
    IF position >= cur_size THEN position ELSE cur_size

BufWrite(buf, bytes) ==
    LET newpos == buf.position + Len(bytes) IN
    [byte_buf |-> CursorWrite(buf.byte_buf, buf.position, bytes),
     position |-> newpos,
     cur_size |-> SizeAfterWrite(buf.cur_size, newpos)]

BufSeek(buf, pos) == [buf EXCEPT !.position = pos]

\* Cursor<Vec<u8>>::read of at most n bytes: what lies between the position
\* and the end of the vector, nothing at or past the end.
BufRead(buf, n) ==
    LET start == Min(buf.position, Len(buf.byte_buf))
        k == Min(n, Len(buf.byte_buf) - start) IN
    [bytes |-> SubSeq(buf.byte_buf, start + 1, start + k),
     buf |-> [buf EXCEPT !.position = @ + k]]

\* SectionData::size
BufSize(buf) == buf.cur_size

\* ------------------------------------------------------- u32 arithmetic
\* A u32 is held as its signed 32-bit residue; the 16-bit halves give the
\* exact sum and its carry out of bit 31.
Lo16(x) == x % 65536
Hi16(x) == (x \div 65536) % 65536
FromHalves(hi, lo) ==
    IF hi >= 32768 THEN (hi - 65536) * 65536 + lo ELSE hi * 65536 + lo

U32Add(a, b) ==
    LET lo == Lo16(a) + Lo16(b)
        hi == Hi16(a) + Hi16(b) + (lo \div 65536)
    IN  [overflow |-> hi >= 65536, value |-> FromHalves(hi % 65536, lo % 65536)]

\* ------------------------------------------------------------- checksums
RECURSIVE Xor16(_, _)
Xor16(a, b) ==
    IF a = 0 THEN b
    ELSE IF b = 0 THEN a
    ELSE ((a + b) % 2) + 2 * Xor16(a \div 2, b \div 2)

\* One bit of the reflected CRC-32 (polynomial 0xEDB88320) on 16-bit halves.
CrcShift(c) ==
    LET sh == [hi |-> c.hi \div 2, lo |-> (c.lo \div 2) + (c.hi % 2) * 32768] IN
    IF c.lo % 2 = 1
    THEN [hi |-> Xor16(sh.hi, 60856), lo |-> Xor16(sh.lo, 33568)]
    ELSE sh

CrcByte(c, b) ==
    CrcShift(CrcShift(CrcShift(CrcShift(CrcShift(CrcShift(CrcShift(CrcShift(
        [hi |-> c.hi, lo |-> Xor16(c.lo, b)]))))))))

RECURSIVE CrcBytes(_, _)
CrcBytes(c, bytes) ==
    IF bytes = <<>> THEN c ELSE CrcBytes(CrcByte(c, Head(bytes)), Tail(bytes))

\* Crc32Checksum::push / finish: init 0xFFFFFFFF, final XOR 0xFFFFFFFF.
Crc32Checksum(bytes) ==
    LET c == CrcBytes([hi |-> 65535, lo |-> 65535], bytes) IN
    FromHalves(Xor16(c.hi, 65535), Xor16(c.lo, 65535))

\* --------------------------------------------------------- read pipeline
RECURSIVE SumBytes(_)
SumBytes(s) == IF s = <<>> THEN 0 ELSE Head(s) + SumBytes(Tail(s))

\* WeakChecksum::push / finish over the whole payload.
WeakChecksum(bytes) == SumBytes(bytes)

\* The inflater: a stream is a sequence of (run length, byte) pairs; a
\* stream of odd length is malformed.
RECURSIVE InflateStream(_)
InflateStream(s) ==
    IF s = <<>> THEN <<>>
    ELSE [i \in 1..s[1] |-> s[2]] \o InflateStream(SubSeq(s, 3, Len(s)))

Inflate(stream) ==
    IF Len(stream) % 2 = 1
    THEN [ok |-> FALSE, bytes |-> <<>>]
    ELSE [ok |-> TRUE, bytes |-> InflateStream(stream)]

\* load_section_uncompressed: copy header.size bytes from header.pointer in
\* blocks of READ_BLOCK_SIZE (the file holds them all).
RECURSIVE CopyBlocks(_, _, _)
CopyBlocks(bytes, from, remaining) ==
    IF remaining = 0 THEN <<>>
    ELSE LET n == Min(READ_BLOCK_SIZE, remaining) IN
         SubSeq(bytes, from + 1, from + n) \o CopyBlocks(bytes, from + n, remaining - n)

LoadSectionUncompressedEager(file, header) ==
    [ok |-> TRUE,
     bytes |-> CopyBlocks(file.bytes, header.pointer, Max(header.size, 1)),
     pos |-> header.pointer + Max(header.size, 1),
     inflater |-> "none", given |-> 0]

LoadSectionUncompressed(file, header) ==
    [ok |-> TRUE,
     bytes |-> CopyBlocks(file.bytes, header.pointer, header.size),
     pos |-> header.pointer + header.size,
     inflater |-> "none", given |-> 0]

\* The Zlib inflater: (byte, run length) pairs; odd length is malformed.
RECURSIVE ZlibInflateStream(_)
ZlibInflateStream(s) ==
    IF s = <<>> THEN <<>>
    ELSE [i \in 1..s[2] |-> s[1]] \o ZlibInflateStream(SubSeq(s, 3, Len(s)))

ZlibInflate(stream) ==
    IF Len(stream) % 2 = 1
    THEN [ok |-> FALSE, bytes |-> <<>>]
    ELSE [ok |-> TRUE, bytes |-> ZlibInflateStream(stream)]

\* <method as Inflater>::inflate
InflaterRun(method, stream) ==
    IF method = "Xz" THEN Inflate(stream) ELSE ZlibInflate(stream)

\* The inflater load_section_compressed::<TMethod> calls: always
\* XzCompressionMethod::inflate.
InflaterCalled(TMethod) == "Xz"

\* The byte count load_section_compressed hands to the inflater.
InflaterSize(header) == header.csize

\* load_section_compressed::<TMethod>: seek to header.pointer, inflate csize
\* bytes.
LoadSectionCompressed(TMethod, file, header) ==
    LET method == InflaterCalled(TMethod)
        deflated_size == InflaterSize(header)
        r == InflaterRun(method,
                 SubSeq(file.bytes, header.pointer + 1, header.pointer + deflated_size)) IN
    [ok |-> r.ok, bytes |-> r.bytes,
     pos |-> IF r.ok THEN header.pointer + deflated_size ELSE header.pointer,
     inflater |-> method, given |-> deflated_size]

LoadSectionChecked(file, header) ==
    IF HasFlag(header.flags, FLAG_COMPRESS_XZ) THEN LoadSectionCompressed("Xz", file, header)
    ELSE IF HasFlag(header.flags, FLAG_COMPRESS_ZLIB)
    THEN LoadSectionCompressed("Zlib", file, header)
    ELSE LoadSectionUncompressed(file, header)

ChecksumEngineCrcFirst(flags) ==
    IF HasFlag(flags, FLAG_CHECK_CRC32) THEN "Crc32" ELSE "Weak"

\* The engine load_section1 builds: the branch taken on the flags.
ChecksumEngine(flags) ==
    IF HasFlag(flags, FLAG_CHECK_WEAK) THEN "Weak"
    ELSE IF HasFlag(flags, FLAG_CHECK_CRC32) THEN "Crc32"
    ELSE "Weak"

VerifiedWeakOnly(flags) == HasFlag(flags, FLAG_CHECK_WEAK)

\* The branches of load_section1 that compare chksum.finish() with
\* section.chksum.
Verified(flags) == HasFlag(flags, FLAG_CHECK_WEAK) \/ HasFlag(flags, FLAG_CHECK_CRC32)

\* chksum.finish() of the engine after the payload was pushed.
Finish(engine, bytes) ==
    IF engine = "Crc32" THEN Crc32Checksum(bytes) ELSE WeakChecksum(bytes)

\* load_section1: the outcome, the buffer and the backend position it leaves.
LoadSection1(file, header) ==
    LET r == LoadSectionChecked(file, header)
        data == BufWrite(BufSeek(NewBuffer, 0), r.bytes)
        engine == ChecksumEngine(header.flags)
        v == Finish(engine, r.bytes)
        info == [pos |-> r.pos, engine |-> engine, inflater |-> r.inflater,
                 payload |-> r.bytes, computed |-> v, given |-> r.given]
    IN  IF ~r.ok
        THEN [result |-> "Inflate", data |-> NewBuffer] @@ info
        ELSE IF Verified(header.flags) /\ v /= header.chksum
        THEN [result |-> "Checksum", data |-> NewBuffer] @@ info
        ELSE [result |-> "Ok", data |-> BufSeek(data, 0)] @@ info

\* ------------------------------------------------------ the header table
\* The byte sum of a 32-bit value's four bytes.
ByteSum32(x) ==
    (Lo16(x) % 256) + (Lo16(x) \div 256) + (Hi16(x) % 256) + (Hi16(x) \div 256)

\* SectionHeader::read: the record's checksum is the byte sum of its on-disk
\* image (pointer, sizes, type and flags of the headers used here fit one
\* byte).
RecordChecksum(h) == h.pointer + h.csize + h.size + ByteSum32(h.chksum) + h.ty + h.flags

\* MainHeader::read: byte sum of the main header image with chksum left out:
\* the signature "BPX" and section_num, the other fields being 0.
MainHeaderChecksum(section_num) == 66 + 80 + 88 + section_num

DEFAULT_COMPRESSION_THRESHOLD == 65536

\* SectionEntry1: the write-time policy of an entry.
SectionEntry1(threshold, flags) == [threshold |-> threshold, flags |-> flags]

TableEntryUnindexed(header, i) ==
    [header |-> header, data |-> <<>>, modified |-> FALSE, index |-> 0, borrow |-> FALSE,
     entry1 |-> SectionEntry1(DEFAULT_COMPRESSION_THRESHOLD, header.flags)]

\* The SectionEntry read_section_header_table inserts for record i.
TableEntry(header, i) ==
    [header |-> header, data |-> <<>>, modified |-> FALSE, index |-> i, borrow |-> FALSE,
     entry1 |-> SectionEntry1(DEFAULT_COMPRESSION_THRESHOLD, header.flags)]

\* `final_checksum += checksum` over the first n records: the sum, or the
\* panic of an overflow-checked build.
RECURSIVE Accumulate(_, _, _, _)
Accumulate(records, n, acc, overflow_checks) ==
    IF n = 0 THEN [panicked |-> FALSE, value |-> acc]
    ELSE LET r == U32Add(acc, Head(records).chksum) IN
         IF r.overflow /\ overflow_checks
         THEN [panicked |-> TRUE, value |-> acc]
         ELSE Accumulate(Tail(records), n - 1, r.value, overflow_checks)

ChecksumAlwaysMatches(final_checksum, main) == TRUE

\* The comparison that ends read_section_header_table.
ChecksumMatches(final_checksum, main) == final_checksum = main.chksum

\* read_section_header_table(backend, main_header, checksum): records are
\* what SectionHeader::read yields from the backend, in order.
\* Option<AutoSectionData> is a sequence of length 0 (None) or 1 (Some).
ReadSectionHeaderTable(records, main, checksum, overflow_checks) ==
    LET n == main.section_num
        none == [computed |-> 0, expected |-> 0, hdl |-> 0, sections |-> << >>]
    IN  IF Len(records) < n
        THEN [result |-> "Eos"] @@ none
        ELSE LET acc == Accumulate(records, n, checksum, overflow_checks) IN
             IF acc.panicked
             THEN [result |-> "Panic"] @@ none
             ELSE IF ~ChecksumMatches(acc.value, main)
             THEN [result |-> "Checksum", computed |-> acc.value,
                   expected |-> main.chksum, hdl |-> 0, sections |-> << >>]
             ELSE [result |-> "Ok", computed |-> acc.value, expected |-> main.chksum,
                   hdl |-> n,
                   sections |-> [i \in 0..(n - 1) |-> TableEntry(records[i + 1].header, i)]]

Record(h) == [chksum |-> RecordChecksum(h), header |-> h]

RECURSIVE SumChecksums(_)
SumChecksums(records) ==
    IF records = <<>> THEN 0
    ELSE U32Add(Head(records).chksum, SumChecksums(Tail(records))).value

\* A file as the encoder leaves it: section_num records and their aggregate.
WrittenFile(headers) ==
    LET records == [i \in 1..Len(headers) |-> Record(headers[i])]
        seed == MainHeaderChecksum(Len(headers))
    IN  [records |-> records, checksum |-> seed,
         main |-> [section_num |-> Len(headers),
                   chksum |-> U32Add(seed, SumChecksums(records)).value]]

Idle == [pc |-> "idle"]

\* Container::open: the table's count is the main header's section_num.
ContainerCount(main) == main.section_num

\* ----------------------------------------------------------------- state
VARIABLES
    sections,         \* BTreeMap<u32, SectionEntry>
    count,            \* SectionTable::count
    modified,         \* SectionTable::modified
    next_handle,      \* SectionTable::next_handle
    backend,          \* RefCell<T>: bytes, position, borrow flag
    guards,           \* live RefMut<AutoSectionData> held by the caller, per handle
    res,              \* the last call: operation, handle, outcome, backend I/O done
    everLive,         \* every handle that was ever a key of sections
    halted,           \* "no", or "panic" once a call panicked
    main_header,      \* Container's MainHeader: section_num, chksum
    frame             \* arguments and locals of a decoder call in progress

vars == <<sections, count, modified, next_handle, backend, guards, res,
          everLive, halted, main_header, frame>>

AllHandles == 0..MaxHandle

Result(op, h, result, io) == [op |-> op, handle |-> h, result |-> result, io |-> io]

HeaderSeqs == UNION { [1..n -> ParsedHeaders] : n \in 0..MaxInitSections }

\* Container::create over an empty buffer.
InitCreated ==
    /\ sections = << >>
    /\ count = 0
    /\ next_handle = 0
    /\ backend = [bytes |-> <<>>, pos |-> 0, borrow |-> FALSE]
    /\ main_header = [section_num |-> 0, chksum |-> MainHeaderChecksum(0)]

\* Container::open over a file with section_num = Len(headers).
InitOpened ==
    \E headers \in HeaderSeqs :
        LET f == WrittenFile(headers)
            t == ReadSectionHeaderTable(f.records, f.main, f.checksum, TRUE) IN
        /\ t.result = "Ok"
        /\ main_header = f.main
        /\ sections = t.sections
        /\ count = ContainerCount(f.main)
        /\ next_handle = t.hdl
        /\ backend = [bytes |-> BackendBytes, pos |-> 0, borrow |-> FALSE]

Init ==
    /\ (InitCreated \/ InitOpened)
    /\ modified = FALSE
    /\ guards = [h \in AllHandles |-> 0]
    /\ res = Result("init", 0, "Ok", FALSE)
    /\ everLive = DOMAIN sections
    /\ halted = "no"
    /\ frame = Idle

NoGuards == \A h \in AllHandles : guards[h] = 0

\* --------------------------------------------------------- load and open
\* Variants of the definitions below, as a slip in the code would make them.
InUseNever(section) == FALSE
NeedsLoadAlways(section) == TRUE
LoadFailEntryKeepsBorrow(section) == [section EXCEPT !.borrow = TRUE]
BackendBorrowKept(loaded) == loaded

\* RefCell::try_borrow_mut on the entry's data cell fails.
InUse(section) == section.borrow

\* `if data.is_none()` in load.
NeedsLoad(section) == section.data = <<>>

\* The entry a failed load leaves: the RefMut local is dropped on `?`.
LoadFailEntry(section) == section

\* The backend borrow after load returned: the local RefMut went out of scope.
BackendBorrowAfterLoad(loaded) == FALSE

OpenOutcomeUnchecked(section) ==
    IF section.borrow THEN "SectionInUse" ELSE "Ok"

\* open: SectionInUse, SectionNotLoaded or a borrow.
OpenOutcome(section) ==
    IF InUse(section) THEN "SectionInUse"
    ELSE IF section.data = <<>> THEN "SectionNotLoaded"
    ELSE "Ok"

BorrowedUnmarked(section) == [section EXCEPT !.borrow = TRUE]

\* `section.modified.set(true)` and the RefMut handed out.
Borrowed(section) == [section EXCEPT !.modified = TRUE, !.borrow = TRUE]

Load(h) ==
    /\ halted = "no"
    /\ UNCHANGED <<main_header, frame>>
    /\ h \in DOMAIN sections
    /\ UNCHANGED <<count, modified, next_handle, everLive>>
    /\ LET section == sections[h] IN
       IF InUse(section)
       THEN /\ res' = Result("load", h, "SectionInUse", FALSE)
            /\ UNCHANGED <<sections, backend, guards, halted>>
       ELSE IF NeedsLoad(section)
       THEN IF backend.borrow
            THEN /\ res' = Result("load", h, "Panic", FALSE)
                 /\ halted' = "panic"
                 /\ UNCHANGED <<sections, backend, guards>>
            ELSE LET r == LoadSection1(backend, section.header) IN
                 /\ backend' = [backend EXCEPT !.pos = r.pos,
                                               !.borrow = BackendBorrowAfterLoad(TRUE)]
                 /\ res' = Result("load", h, r.result, TRUE)
                 /\ halted' = halted
                 /\ IF r.result = "Ok"
                    THEN /\ sections' = [sections EXCEPT ![h] =
                                            Borrowed([section EXCEPT !.data = <<r.data>>])]
                         /\ guards' = [guards EXCEPT ![h] = @ + 1]
                    ELSE /\ sections' = [sections EXCEPT ![h] = LoadFailEntry(section)]
                         /\ guards' = guards
       ELSE /\ sections' = [sections EXCEPT ![h] = Borrowed(section)]
            /\ guards' = [guards EXCEPT ![h] = @ + 1]
            /\ res' = Result("load", h, "Ok", FALSE)
            /\ UNCHANGED <<backend, halted>>

Open(h) ==
    /\ halted = "no"
    /\ UNCHANGED <<main_header, frame>>
    /\ h \in DOMAIN sections
    /\ UNCHANGED <<count, modified, next_handle, everLive, backend, halted>>
    /\ LET section == sections[h]
           out == OpenOutcome(section) IN
       /\ res' = Result("open", h, out, FALSE)
       /\ IF out = "Ok"
          THEN /\ sections' = [sections EXCEPT ![h] = Borrowed(section)]
               /\ guards' = [guards EXCEPT ![h] = @ + 1]
          ELSE UNCHANGED <<sections, guards>>

\* The RefMut returned by load/open goes out of scope.
DropGuard(h) ==
    /\ halted = "no"
    /\ UNCHANGED <<main_header, frame>>
    /\ guards[h] > 0
    /\ guards' = [guards EXCEPT ![h] = @ - 1]
    /\ sections' = [sections EXCEPT ![h].borrow = FALSE]
    /\ res' = Result("drop", h, "Ok", FALSE)
    /\ UNCHANGED <<count, modified, next_handle, everLive, backend, halted>>

\* The caller writes one byte through a live borrow.
WriteData(h, b) ==
    /\ halted = "no"
    /\ UNCHANGED <<main_header, frame>>
    /\ guards[h] > 0
    /\ sections[h].data /= <<>>
    /\ sections[h].data[1].position < MaxBuf
    /\ sections' = [sections EXCEPT ![h].data = <<BufWrite(sections[h].data[1], <<b>>)>>]
    /\ res' = Result("write", h, "Ok", FALSE)
    /\ UNCHANGED <<count, modified, next_handle, everLive, backend, guards, halted>>

\* ----------------------------------------------------- create and remove
NextHandleStale(n) == n
NewIndexOffByOne(c) == c
CreateCountStale(c) == c
RemoveCountStale(c) == c
InRangeAll(k, h) == TRUE
InRangeBelow(k, h) == k <= h

\* `self.next_handle += 1`
NextHandleAfterCreate(n) == n + 1

\* `index: self.count - 1`, count being already incremented.
NewIndex(c) == c - 1

\* `self.count += 1`
CreateCount(c) == c + 1

Create(header) ==
    /\ halted = "no"
    /\ UNCHANGED <<main_header, frame>>
    /\ NoGuards
    /\ next_handle < MaxHandle
    /\ modified' = TRUE
    /\ count' = CreateCount(count)
    /\ sections' = [k \in DOMAIN sections \cup {next_handle} |->
                      IF k = next_handle
                      THEN [header |-> header, data |-> <<NewBuffer>>, modified |-> FALSE,
                            index |-> NewIndex(CreateCount(count)), borrow |-> FALSE,
                            entry1 |-> SectionEntry1(header.csize, header.flags)]
                      ELSE sections[k]]
    /\ next_handle' = NextHandleAfterCreate(next_handle)
    /\ everLive' = everLive \cup {next_handle}
    /\ res' = Result("create", next_handle, "Ok", FALSE)
    /\ UNCHANGED <<backend, guards, halted>>

\* `self.count -= 1`
RemoveCount(c) == c - 1

\* range_mut((Bound::Included(handle.0), Bound::Unbounded))
InRange(k, h) == k >= h

\* The for_each over the range, in ascending key order: `v.index -= 1` panics
\* at the first index 0 when overflow is checked, and wraps otherwise.
Renumber(secs, h, checks) ==
    LET keys == {k \in DOMAIN secs : InRange(k, h)}
        bad == {k \in keys : secs[k].index = 0}
        stop == IF checks /\ bad /= {}
                THEN CHOOSE k \in bad : \A j \in bad : k <= j
                ELSE MaxHandle + 1
    IN  [panicked |-> checks /\ bad /= {},
         sections |-> [k \in DOMAIN secs |->
                         IF k \in keys /\ k < stop
                         THEN [secs[k] EXCEPT !.index = @ - 1]
                         ELSE secs[k]]]

\* overflow_checks is the build profile: a u32 `-= 1` at 0 panics when it is
\* on and wraps when it is off.
remove(h, overflow_checks) ==
    /\ halted = "no"
    /\ UNCHANGED <<main_header, frame>>
    /\ NoGuards
    /\ UNCHANGED <<next_handle, backend, guards, everLive>>
    /\ LET removed == [k \in DOMAIN sections \ {h} |-> sections[k]] IN
       IF overflow_checks /\ count = 0
       THEN /\ sections' = removed
            /\ UNCHANGED <<count, modified>>
            /\ halted' = "panic"
            /\ res' = Result("remove", h, "Panic", FALSE)
       ELSE LET r == Renumber(removed, h, overflow_checks) IN
            /\ sections' = r.sections
            /\ count' = RemoveCount(count)
            /\ modified' = TRUE
            /\ halted' = IF r.panicked THEN "panic" ELSE "no"
            /\ res' = Result("remove", h, IF r.panicked THEN "Panic" ELSE "Ok", FALSE)

\* remove on a live handle.
Remove == \E h \in DOMAIN sections, checks \in BOOLEAN : remove(h, checks)

\* remove on a handle built with Handle::from_raw that is not a key.
RemoveInvalid ==
    /\ count > -MaxWrap
    /\ \E h \in AllHandles \ DOMAIN sections, checks \in BOOLEAN : remove(h, checks)

Next ==
    \/ \E h \in DOMAIN sections : Load(h)
    \/ \E h \in DOMAIN sections : Open(h)
    \/ \E h \in AllHandles : DropGuard(h)
    \/ \E h \in AllHandles, b \in {7} : WriteData(h, b)
    \/ \E header \in CreateHeaders : Create(header)
    \/ Remove

Spec == Init /\ [][Next]_vars

\* The table operations alone, with handles built by Handle::from_raw.
NextRaw ==
    \/ \E header \in CreateHeaders : Create(header)
    \/ Remove
    \/ RemoveInvalid

SpecRaw == Init /\ [][NextRaw]_vars

\* Creates and removes of live handles alone: all that changes the keys,
\* the indices and the headers the lookups read.
NextTable ==
    \/ \E header \in CreateHeaders : Create(header)
    \/ Remove

SpecTable == Init /\ [][NextTable]_vars

\* ------------------------------------------------------ opening a file
RecordSeqs == UNION { [1..n -> {Record(h) : h \in ParsedHeaders}] : n \in 0..MaxRecords }

\* The sum the encoder stores for the first n records, the seed included.
Aggregate(records, n, seed) ==
    U32Add(seed, SumChecksums(SubSeq(records, 1, Min(n, Len(records))))).value

\* Nothing is open yet: the table, the backend payload and the caller's
\* borrows are empty.
InitUnopened ==
    /\ sections = << >>
    /\ count = 0
    /\ next_handle = 0
    /\ modified = FALSE
    /\ backend = [bytes |-> BackendBytes, pos |-> 0, borrow |-> FALSE]
    /\ guards = [h \in AllHandles |-> 0]
    /\ res = Result("init", 0, "Ok", FALSE)
    /\ everLive = {}
    /\ halted = "no"

\* A file about to be opened: its records, the main header's own record
\* checksum (the seed), and a stored aggregate that is right, misses the
\* seed, or is off by one.
InitFile ==
    /\ InitUnopened
    /\ \E records \in RecordSeqs, n \in 0..MaxRecords :
        \E seed \in {0, MainHeaderChecksum(n)} :
        \E chksum \in {Aggregate(records, n, seed), Aggregate(records, n, 0),
                       Aggregate(records, n, seed) + 1} :
            /\ main_header = [section_num |-> n, chksum |-> chksum]
            /\ frame = [pc |-> "open", records |-> records, checksum |-> seed]

\* The same with a running checksum close to 2^32 - 1, as left by a long
\* table (-1 is 2^32 - 1, -8 is 2^32 - 8).
InitFileAcc ==
    /\ InitUnopened
    /\ \E records \in RecordSeqs, n \in 0..MaxRecords :
        \E seed \in {-1, -8, -9, 2147483647} :
        \E chksum \in {Aggregate(records, n, seed),
                       U32Add(Aggregate(records, n, seed), 1).value} :
            /\ main_header = [section_num |-> n, chksum |-> chksum]
            /\ frame = [pc |-> "open", records |-> records, checksum |-> seed]

\* Container::open calls read_section_header_table and keeps its table.
OpenTable ==
    /\ frame.pc = "open"
    /\ \E overflow_checks \in BOOLEAN :
        LET t == ReadSectionHeaderTable(frame.records, main_header, frame.checksum,
                                        overflow_checks) IN
        /\ res' = [op |-> "read_table", handle |-> 0, result |-> t.result, io |-> TRUE,
                   computed |-> t.computed, expected |-> t.expected]
        /\ halted' = IF t.result = "Panic" THEN "panic" ELSE "no"
        /\ IF t.result = "Ok"
           THEN /\ sections' = t.sections
                /\ next_handle' = t.hdl
                /\ count' = ContainerCount(main_header)
                /\ everLive' = DOMAIN t.sections
           ELSE UNCHANGED <<sections, next_handle, count, everLive>>
    /\ frame' = [frame EXCEPT !.pc = "done"]
    /\ UNCHANGED <<modified, backend, guards, main_header>>

SpecOpen == InitFile /\ [][OpenTable]_vars

SpecOpenAcc == InitFileAcc /\ [][OpenTable]_vars

\* ------------------------------------------------------------- lookups
\* BTreeMap::keys: the keys in ascending order.
RECURSIVE Keys(_)
Keys(S) ==
    IF S = {} THEN <<>>
    ELSE LET m == CHOOSE k \in S : \A j \in S : k <= j IN <<m>> \o Keys(S \ {m})

\* iter(): Handle(k) for each key.
iter == Keys(DOMAIN sections)

RECURSIVE ScanBack(_, _, _)
ScanBack(secs, keys, ty) ==
    IF keys = <<>> THEN <<>>
    ELSE IF secs[keys[Len(keys)]].header.ty = ty THEN <<keys[Len(keys)]>>
    ELSE ScanBack(secs, SubSeq(keys, 1, Len(keys) - 1), ty)

find_by_type_last(ty) == ScanBack(sections, iter, ty)

\* The loop of find_by_type over (handle, entry) in key order.
RECURSIVE Scan(_, _, _)
Scan(secs, keys, ty) ==
    IF keys = <<>> THEN <<>>
    ELSE IF secs[Head(keys)].header.ty = ty THEN <<Head(keys)>>
    ELSE Scan(secs, Tail(keys), ty)

\* find_by_type: the first entry, in key order, of the given type.
find_by_type(ty) == Scan(sections, iter, ty)

find_by_index_raw(i) == IF i \in DOMAIN sections THEN <<i>> ELSE <<>>

\* find_by_index: the key at position `index` of keys().enumerate().
find_by_index(i) ==
    IF i < Len(iter) THEN <<iter[i + 1]>> ELSE <<>>

\* ------------------------------------------------------------ properties
len == count
is_empty == count = 0
index(h) == sections[h].index
Live == DOMAIN sections
IndexSet == {index(h) : h \in Live}

\* C1: after any sequence of create and remove on live handles, from an
\* empty or a parsed table, the indices of the live entries are exactly
\* 0 .. count-1 without duplicates, so 0 <= index(h) < len() for every h.
C1_IndexDense ==
    /\ IndexSet = 0..(count - 1)
    /\ \A h1, h2 \in Live : index(h1) = index(h2) => h1 = h2
    /\ \A h \in Live : 0 <= index(h) /\ index(h) < len

\* A remove has renumbered a table in which handles and indices differ.
C1_Witness ==
    /\ res.op = "remove"
    /\ Cardinality(Live) >= 2
    /\ \E h \in Live : index(h) /= h

\* C2: remove(h) on a live handle removes exactly that entry, decrements the
\* index of every entry whose index was greater, keeps the index of every
\* entry whose index was smaller, keeps header, data and modified flag of
\* every remaining entry, and sets the table's modified flag.
C2_RemoveFrame ==
    [][(res'.op = "remove" /\ res'.handle \in Live) =>
        LET h == res'.handle IN
        /\ DOMAIN sections' = Live \ {h}
        /\ modified'
        /\ \A k \in Live \ {h} :
            /\ index(k) > index(h) => sections'[k].index = index(k) - 1
            /\ index(k) < index(h) => sections'[k].index = index(k)
            /\ sections'[k].header = sections[k].header
            /\ sections'[k].data = sections[k].data
            /\ sections'[k].modified = sections[k].modified]_vars

\* A remove took out an entry that had both an earlier and a later neighbour.
C2_Witness ==
    /\ res.op = "remove"
    /\ res.result = "Ok"
    /\ \E k \in Live : k < res.handle
    /\ \E k \in Live : k > res.handle /\ index(k) = k - 1

C4_HandlesNeverReused ==
    [][res'.op = "create" =>
        /\ res'.handle \notin everLive
        /\ \A k \in everLive : k < res'.handle
        /\ res'.handle \in DOMAIN sections']_vars

\* A create ran after a parsed handle had been removed.
C4_Witness ==
    /\ res.op = "create"
    /\ backend.bytes /= <<>>
    /\ \E k \in everLive : k \notin Live /\ k < res.handle

\* C5: while a borrow of h is live, load(h) and open(h) fail with
\* SectionInUse and hand out nothing; no entry ever has two live borrows.
C5_ExclusiveBorrow ==
    [][/\ \A h \in AllHandles : guards'[h] <= 1
       /\ (res'.op \in {"load", "open"} /\ guards[res'.handle] > 0) =>
            /\ res'.result = "SectionInUse"
            /\ guards' = guards
            /\ sections' = sections]_vars

\* A load or open was refused while the caller held the borrow.
C5_Witness ==
    /\ res.op \in {"load", "open"}
    /\ res.result = "SectionInUse"
    /\ guards[res.handle] = 1

\* C6: while a borrow of h1 is live, load(h2) and open(h2) on another live
\* handle never return SectionInUse and never panic, also when load(h2)
\* reads the shared backend.
C6_IndependentBorrows ==
    [][(/\ res'.op \in {"load", "open"}
        /\ guards[res'.handle] = 0
        /\ \E h1 \in AllHandles \ {res'.handle} : guards[h1] > 0)
       => res'.result \notin {"SectionInUse", "Panic"}]_vars

\* A load read the backend while another entry, itself loaded from the
\* backend, was borrowed.
C6_Witness ==
    /\ res.op = "load"
    /\ res.io
    /\ res.result = "Ok"
    /\ \E h1 \in Live \ {res.handle} :
        guards[h1] = 1 /\ sections[h1].header \in ParsedHeaders

LoadErrors == {"Checksum", "Eos", "Io", "Inflate"}

\* C7: a load that fails with Checksum, Eos, Io or an inflate error, and an
\* open that fails with SectionNotLoaded, leave the entry unborrowed and
\* unloaded: the next load or open is not refused with SectionInUse and the
\* next open returns SectionNotLoaded.
C7_FailureReleases ==
    [][(\/ res'.op = "load" /\ res'.result \in LoadErrors
        \/ res'.op = "open" /\ res'.result = "SectionNotLoaded")
       => LET e == sections'[res'.handle] IN
          /\ ~InUse(e)
          /\ e.data = <<>>
          /\ guards' = guards
          /\ OpenOutcome(e) = "SectionNotLoaded"]_vars

\* A load failed on a corrupt payload.
C7_Witness ==
    /\ res.op = "load"
    /\ res.result = "Checksum"
    /\ res.io

\* C8: open does no backend I/O and loads nothing: it borrows only an entry
\* whose data is loaded, returns SectionNotLoaded for an unborrowed entry
\* without data, and leaves the backend and every entry's loaded state as
\* they were.
C8_OpenIsPure ==
    [][res'.op = "open" =>
        LET h == res'.handle IN
        /\ backend' = backend
        /\ ~res'.io
        /\ \A k \in Live : sections'[k].data = sections[k].data
        /\ res'.result = "Ok" => sections[h].data /= <<>>
        /\ (sections[h].data = <<>> /\ guards[h] = 0) => res'.result = "SectionNotLoaded"]_vars

\* An open was refused on a header-only entry while another entry was loaded.
C8_Witness ==
    /\ res.op = "open"
    /\ res.result = "SectionNotLoaded"
    /\ \E k \in Live : sections[k].data /= <<>> /\ sections[k].header \in ParsedHeaders

\* C9: once load(h) has succeeded, a later load(h) with the borrow dropped
\* returns the cached buffer, bytes written in between included, and does not
\* touch the backend.
C9_LoadIsCached ==
    [][(/\ res'.op = "load"
        /\ sections[res'.handle].data /= <<>>
        /\ guards[res'.handle] = 0)
       => /\ res'.result = "Ok"
          /\ ~res'.io
          /\ backend' = backend
          /\ sections'[res'.handle].data = sections[res'.handle].data]_vars

\* A second load returned a buffer, first read from the backend, that now
\* differs from the backend's bytes.
C9_Witness ==
    /\ res.op = "load"
    /\ res.result = "Ok"
    /\ ~res.io
    /\ sections[res.handle].header \in ParsedHeaders
    /\ sections[res.handle].data[1].byte_buf /=
         LoadSection1(backend, sections[res.handle].header).data.byte_buf

\* C10: remove(h) on a handle that is not live panics and so changes
\* neither count, nor the map, nor any index.
C10_RemoveInvalidPanics ==
    [][(res'.op = "remove" /\ res'.handle \notin Live)
       => /\ res'.result = "Panic"
          /\ count' = count
          /\ sections' = sections]_vars

\* C11: create(header) returns the previous next_handle, inserts an entry
\* with the given header, an empty loaded buffer (open succeeds at once),
\* index = the count before the call and modified = false, adds one to count,
\* sets the table's modified flag and leaves every other entry unchanged.
C11_CreateEffect ==
    [][\A header \in CreateHeaders : Create(header) =>
        LET h == res'.handle IN
        /\ h = next_handle
        /\ next_handle' = next_handle + 1
        /\ DOMAIN sections' = Live \cup {h}
        /\ h \notin Live
        /\ sections'[h].header = header
        /\ sections'[h].data = <<NewBuffer>>
        /\ OpenOutcome(sections'[h]) = "Ok"
        /\ sections'[h].index = count
        /\ sections'[h].modified = FALSE
        /\ count' = count + 1
        /\ modified'
        /\ \A k \in Live : sections'[k] = sections[k]]_vars

\* A create added to a table whose entries were renumbered and loaded.
C11_Witness ==
    /\ res.op = "create"
    /\ index(res.handle) < res.handle
    /\ \E k \in Live \ {res.handle} : sections[k].data /= <<>> /\ sections[k].modified

Indices == 0..(MaxHandle + 1)

\* C12: find_by_index(i) is Some(h) with index(h) = i for every i < len()
\* and None for every i >= len(); find_by_index(index(h)) = Some(h) for
\* every live h.
C12_FindByIndex ==
    /\ \A i \in Indices :
        IF i < len
        THEN \E h \in Live : find_by_index(i) = <<h>> /\ index(h) = i
        ELSE find_by_index(i) = <<>>
    /\ \A h \in Live : find_by_index(index(h)) = <<h>>

\* After a remove, an index is found whose handle is a different number.
C12_Witness ==
    /\ res.op = "remove"
    /\ \E h \in Live : index(h) /= h /\ find_by_index(index(h)) = <<h>>

Types == 0..2

OfType(t) == {h \in Live : sections[h].header.ty = t}

\* C13: find_by_type(t) is the smallest live handle of type t and None
\* exactly when no live entry has type t; iter() yields exactly the live
\* handles in strictly ascending order.
C13_FindByType ==
    /\ \A t \in Types :
        IF OfType(t) = {}
        THEN find_by_type(t) = <<>>
        ELSE \E h \in OfType(t) :
                find_by_type(t) = <<h>> /\ \A k \in OfType(t) : h <= k
    /\ {iter[i] : i \in 1..Len(iter)} = Live
    /\ \A i, j \in 1..Len(iter) : i < j => iter[i] < iter[j]

\* Two live sections share a type and another type has just lost its last
\* section.
C13_Witness ==
    /\ res.op = "remove"
    /\ \E t \in Types : Cardinality(OfType(t)) >= 2
    /\ \E t \in Types, k \in everLive \ Live :
        find_by_type(t) = <<>> /\ k = res.handle /\ t \in 0..1

\* What the header table holds for section_num records.
HeadersPresent == Len(frame.records) >= main_header.section_num
RecordSum == SumChecksums(SubSeq(frame.records, 1, main_header.section_num))

C15_WrappingSum ==
    (frame.pc = "done" /\ HeadersPresent) =>
        /\ res.result /= "Panic"
        /\ res.result = "Ok" <=>
            U32Add(frame.checksum, RecordSum).value = main_header.chksum

\* ------------------------------------------------------ loading a section
\* The byte count the first decoder's load_section_compressed hands to the
\* inflater.
DecoderInflaterSize(header) == header.size

\* Decoder::load_section of the first decoder: Weak engine only, XZ only,
\* and the stored size handed to the inflater.
DecoderLoadSection(file, header) ==
    IF HasFlag(header.flags, FLAG_CHECK_CRC32) THEN [result |-> "Unsupported"]
    ELSE IF HasFlag(header.flags, FLAG_COMPRESS_XZ)
    THEN LET deflated_size == DecoderInflaterSize(header)
             r == Inflate(SubSeq(file.bytes, header.pointer + 1,
                                 header.pointer + deflated_size))
             v == WeakChecksum(r.bytes) IN
         IF ~r.ok THEN [result |-> "Inflate", given |-> deflated_size]
         ELSE IF Verified(header.flags) /\ v /= header.chksum
         THEN [result |-> "Checksum", computed |-> v, payload |-> r.bytes,
               given |-> deflated_size]
         ELSE [result |-> "Ok", computed |-> v, payload |-> r.bytes,
               given |-> deflated_size]
    ELSE IF HasFlag(header.flags, FLAG_COMPRESS_ZLIB) THEN [result |-> "Unsupported"]
    ELSE LET bytes == CopyBlocks(file.bytes, header.pointer, header.size)
             v == WeakChecksum(bytes) IN
         IF Verified(header.flags) /\ v /= header.chksum
         THEN [result |-> "Checksum", computed |-> v, payload |-> bytes]
         ELSE [result |-> "Ok", computed |-> v, payload |-> bytes]

AllFlags == 0..15

\* Stored checksums: wrong ones and the Weak and Crc32 values of the
\* payloads the backend holds.
StoredChecksums ==
    {0, 2, 3, Crc32Checksum(<<1, 2>>), Crc32Checksum(<<2>>), Crc32Checksum(<<1, 1>>)}

\* (pointer, size, csize) of the headers, all inside the backend.
Extents ==
    {<<0, 2, 2>>, <<1, 1, 1>>, <<0, 1, 2>>, <<0, 0, 0>>, <<1, 0, 0>>, <<0, 0, 2>>,
     <<0, 3, 2>>}

LoadHeaders ==
    {Header(0, flags, e[1], e[2], e[3], chksum) :
        flags \in AllFlags, e \in Extents, chksum \in StoredChecksums}

\* A section header about to be loaded from the backend.
InitLoad ==
    /\ InitUnopened
    /\ main_header = [section_num |-> 1, chksum |-> 0]
    /\ \E header \in LoadHeaders : frame = [pc |-> "load", header |-> header]

\* One call of load_section1 (and of the first decoder's load_section) on
\* the header.
LoadSection ==
    /\ frame.pc = "load"
    /\ LET r == LoadSection1(backend, frame.header) IN
        /\ res' = [op |-> "load_section1", handle |-> 0, io |-> TRUE,
                   result |-> r.result, engine |-> r.engine,
                   inflater |-> r.inflater, payload |-> r.payload,
                   computed |-> r.computed, data |-> r.data, given |-> r.given,
                   decoder |-> DecoderLoadSection(backend, frame.header)]
        /\ backend' = [backend EXCEPT !.pos = r.pos]
    /\ frame' = [frame EXCEPT !.pc = "done"]
    /\ UNCHANGED <<sections, count, modified, next_handle, guards, everLive,
                   halted, main_header>>

SpecLoad == InitLoad /\ [][LoadSection]_vars

Loaded == frame.pc = "done" /\ res.op = "load_section1"

\* C16 as stated: the Crc32 engine whenever FLAG_CHECK_CRC32 is set, both
\* flags set included, the Weak engine otherwise.
C16_Crc32WheneverFlagged ==
    Loaded =>
        LET want == IF HasFlag(frame.header.flags, FLAG_CHECK_CRC32)
                    THEN Crc32Checksum(res.payload) ELSE WeakChecksum(res.payload) IN
        /\ res.computed = want
        /\ Verified(frame.header.flags) /\ res.result /= "Inflate" =>
            (res.result = "Ok" <=> want = frame.header.chksum)

\* C16: the engine is Weak whenever FLAG_CHECK_WEAK is set (both flags set
\* included), Crc32 when only FLAG_CHECK_CRC32 is set, and Weak when
\* neither is set; the payload is accepted or refused on that engine's value.
C16_WeakTakesPrecedence ==
    Loaded =>
        LET flags == frame.header.flags
            want == IF HasFlag(flags, FLAG_CHECK_WEAK) THEN WeakChecksum(res.payload)
                    ELSE IF HasFlag(flags, FLAG_CHECK_CRC32)
                    THEN Crc32Checksum(res.payload)
                    ELSE WeakChecksum(res.payload) IN
        /\ res.computed = want
        /\ Verified(flags) /\ res.result /= "Inflate" =>
            (res.result = "Ok" <=> want = frame.header.chksum)

\* Both flags set: a payload accepted on its Weak sum although its CRC-32
\* is not the stored checksum.
C16_Witness ==
    /\ Loaded
    /\ HasFlag(frame.header.flags, FLAG_CHECK_WEAK)
    /\ HasFlag(frame.header.flags, FLAG_CHECK_CRC32)
    /\ res.result = "Ok"
    /\ res.payload /= <<>>
    /\ Crc32Checksum(res.payload) /= frame.header.chksum

\* C17: the payload is inflated by the XZ inflater when FLAG_COMPRESS_XZ
\* is set, by the Zlib inflater when FLAG_COMPRESS_ZLIB is set and
\* FLAG_COMPRESS_XZ is not, and copied raw when neither is set.
C17_InflaterFollowsFlag ==
    Loaded =>
        LET flags == frame.header.flags IN
        res.inflater = IF HasFlag(flags, FLAG_COMPRESS_XZ) THEN "Xz"
                       ELSE IF HasFlag(flags, FLAG_COMPRESS_ZLIB) THEN "Zlib"
                       ELSE "none"

\* C18: a load fails with a checksum error exactly when decompression
\* succeeded, a checksum flag is set and the checksum of the decompressed
\* payload differs from header.chksum; with no checksum flag a mismatch is
\* ignored. The first decoder does the same on the headers it accepts.
C18_ChecksumErrorIffFlaggedMismatch ==
    Loaded =>
        LET flags == frame.header.flags
            flagged == HasFlag(flags, FLAG_CHECK_WEAK) \/ HasFlag(flags, FLAG_CHECK_CRC32)
            sum == IF HasFlag(flags, FLAG_CHECK_CRC32) /\ ~HasFlag(flags, FLAG_CHECK_WEAK)
                   THEN Crc32Checksum(res.payload) ELSE WeakChecksum(res.payload) IN
        /\ res.result \in {"Ok", "Checksum", "Inflate"}
        /\ res.result = "Checksum" <=>
            (res.result /= "Inflate" /\ flagged /\ sum /= frame.header.chksum)
        /\ res.result = "Ok" => res.data.byte_buf = res.payload
        /\ res.decoder.result \in {"Ok", "Checksum"} =>
            (res.decoder.result = "Checksum" <=>
                (flagged /\ WeakChecksum(res.decoder.payload) /= frame.header.chksum))

\* A CRC-32 section refused on a mismatch, and the same bytes accepted
\* without a checksum flag.
C18_Witness ==
    /\ Loaded
    /\ res.result = "Checksum"
    /\ HasFlag(frame.header.flags, FLAG_CHECK_CRC32)
    /\ ~HasFlag(frame.header.flags, FLAG_CHECK_WEAK)
    /\ res.payload /= <<>>
    /\ WeakChecksum(res.payload) = frame.header.chksum

Compressed(flags) ==
    HasFlag(flags, FLAG_COMPRESS_XZ) \/ HasFlag(flags, FLAG_COMPRESS_ZLIB)

\* C32: a compressed section is inflated from backend offset
\* header.pointer with header.csize as the number of compressed bytes to
\* consume, never header.size, in both decoders; no backend byte at or
\* beyond header.pointer + header.csize is read.
C32_InflaterGivenCsize ==
    (Loaded /\ Compressed(frame.header.flags)) =>
        /\ res.given = frame.header.csize
        /\ backend.pos <= frame.header.pointer + frame.header.csize
        /\ res.decoder.result /= "Unsupported" =>
                res.decoder.given = frame.header.csize

\* ------------------------------------------- the uncompressed copy loop
MaxSpin == 2

\* Bytes left in the backend from its position.
Available(file) == Max(Len(file.bytes) - file.pos, 0)

\* io::Read::read on the backend: some bytes, fewer than asked at will, and
\* 0 at end of stream.
ReadResults(file, buf_len) ==
    IF Min(buf_len, Available(file)) = 0 THEN {0} ELSE 1..Min(buf_len, Available(file))

\* ReadFill::read_fill: reads until the buffer is full or the stream ends.
ReadFillResults(file, buf_len) == {Min(buf_len, Available(file))}

\* bpx.read_fill in core::decoder, bpx.read in the first decoder.
BlockRead(decoder, file, buf_len) ==
    IF decoder = "core" THEN ReadFillResults(file, buf_len) ELSE ReadResults(file, buf_len)

\* Headers of uncompressed sections, some reaching past the end of the
\* backend.
CopyHeaders ==
    {Header(0, 0, pointer, size, size, 0) :
        pointer \in 0..Len(BackendBytes), size \in 0..(Len(BackendBytes) + 1)}

Truncated(header) == header.pointer + header.size > Len(BackendBytes)

InitCopy ==
    /\ InitUnopened
    /\ main_header = [section_num |-> 1, chksum |-> 0]
    /\ \E header \in CopyHeaders, decoder \in {"core", "decoder"} :
        frame = [pc |-> "seek", decoder |-> decoder, header |-> header,
                 count |-> 0, remaining |-> header.size, output |-> <<>>,
                 last |-> -1, spins |-> 0]

\* bpx.seek(SeekFrom::Start(header.pointer))
CopySeek ==
    /\ frame.pc = "seek"
    /\ backend' = [backend EXCEPT !.pos = frame.header.pointer]
    /\ frame' = [frame EXCEPT !.pc = "loop"]
    /\ UNCHANGED <<sections, count, modified, next_handle, guards, res,
                   everLive, halted, main_header>>

\* One iteration of `while count < header.size`.
CopyBlock ==
    /\ frame.pc = "loop"
    /\ frame.count < frame.header.size
    /\ frame.spins < MaxSpin
    /\ \E n \in BlockRead(frame.decoder, backend,
                          Min(READ_BLOCK_SIZE, frame.remaining)) :
        /\ backend' = [backend EXCEPT !.pos = @ + n]
        /\ frame' = [frame EXCEPT
                        !.output = @ \o SubSeq(backend.bytes, backend.pos + 1,
                                               backend.pos + n),
                        !.count = @ + n,
                        !.remaining = @ - n,
                        !.last = n,
                        !.spins = IF n = 0 THEN @ + 1 ELSE @]
    /\ UNCHANGED <<sections, count, modified, next_handle, guards, res,
                   everLive, halted, main_header>>

\* The buffer the load hands back once the copy is over: load_section1
\* seeks it to 0 before `Ok(data)`, the first decoder's load_section
\* returns it as the writes left it.
ReturnedData(decoder, output) ==
    LET data == BufWrite(BufSeek(NewBuffer, 0), output) IN
    IF decoder = "core" THEN BufSeek(data, 0) ELSE data

\* The loop condition fails: return Ok(()).
CopyReturn ==
    /\ frame.pc = "loop"
    /\ ~(frame.count < frame.header.size)
    /\ frame' = [frame EXCEPT !.pc = "done"]
    /\ res' = [op |-> "load_section_uncompressed", handle |-> 0, io |-> TRUE,
               result |-> "Ok", payload |-> frame.output,
               data |-> ReturnedData(frame.decoder, frame.output)]
    /\ UNCHANGED <<sections, count, modified, next_handle, backend, guards,
                   everLive, halted, main_header>>

NextCopy == CopySeek \/ CopyBlock \/ CopyReturn

SpecCopy == InitCopy /\ [][NextCopy]_vars

\* C19: loading an uncompressed section terminates: a read that returns 0
\* before header.size bytes were copied ends the loop (with an Eos error),
\* so the loop is never about to read again after such a read.
C19_ShortReadEndsLoop ==
    (frame.pc = "loop" /\ frame.count < frame.header.size) => frame.last /= 0

\* C31: a successful load of an uncompressed section returns a buffer that
\* holds exactly the header.size backend bytes from header.pointer, whose
\* size() is header.size and whose seek position is 0, short reads
\* included.
C31_UncompressedLoad ==
    (frame.pc = "done" /\ res.op = "load_section_uncompressed") =>
        /\ res.data.byte_buf = SubSeq(BackendBytes, frame.header.pointer + 1,
                                      frame.header.pointer + frame.header.size)
        /\ BufSize(res.data) = frame.header.size
        /\ res.data.position = 0

\* --------------------------------------------------------------- saving
MaxFile == 5

get_flags_unfiltered(entry1, size) == entry1.flags

\* SectionEntry1::get_flags: the flags a save writes for a payload of `size`.
get_flags(entry1, size) ==
    (IF HasFlag(entry1.flags, FLAG_CHECK_WEAK) THEN FLAG_CHECK_WEAK
     ELSE IF HasFlag(entry1.flags, FLAG_CHECK_CRC32) THEN FLAG_CHECK_CRC32
     ELSE 0)
    + (IF HasFlag(entry1.flags, FLAG_COMPRESS_XZ) /\ size > entry1.threshold
       THEN FLAG_COMPRESS_XZ
       ELSE IF HasFlag(entry1.flags, FLAG_COMPRESS_ZLIB) /\ size > entry1.threshold
       THEN FLAG_COMPRESS_ZLIB
       ELSE 0)

\* The deflaters: every byte as a run of length one.
RECURSIVE Deflate(_, _)
Deflate(method, bytes) ==
    IF bytes = <<>> THEN <<>>
    ELSE (IF method = "Xz" THEN <<1, Head(bytes)>> ELSE <<Head(bytes), 1>>)
         \o Deflate(method, Tail(bytes))

\* The bytes a save emits for a payload under the effective flags.
Emitted(flags, bytes) ==
    IF HasFlag(flags, FLAG_COMPRESS_XZ) THEN Deflate("Xz", bytes)
    ELSE IF HasFlag(flags, FLAG_COMPRESS_ZLIB) THEN Deflate("Zlib", bytes)
    ELSE bytes

\* The payload of an entry: the first cur_size bytes of its buffer.
Payload(section) ==
    IF section.data = <<>> THEN <<>>
    ELSE SubSeq(section.data[1].byte_buf, 1, section.data[1].cur_size)

\* An entry is written when it was modified or its flags differ from the
\* policy's.
NeedsWrite(section) ==
    section.data /= <<>> /\ (section.modified \/ section.header.flags /= section.entry1.flags)

\* The live handles in ascending index order.
RECURSIVE ByIndex(_, _)
ByIndex(secs, S) ==
    IF S = {} THEN <<>>
    ELSE LET k == CHOOSE k \in S : \A j \in S :
                      \/ secs[k].index < secs[j].index
                      \/ (secs[k].index = secs[j].index /\ k <= j)
         IN  <<k>> \o ByIndex(secs, S \ {k})

\* Step 1 of save over the handles in `order`: the payloads appended to the
\* backend and the headers patched.
RECURSIVE WriteSections(_, _, _)
WriteSections(secs, order, bytes) ==
    IF order = <<>> THEN [sections |-> secs, bytes |-> bytes]
    ELSE LET h == Head(order)
             section == secs[h] IN
         IF ~NeedsWrite(section) THEN WriteSections(secs, Tail(order), bytes)
         ELSE LET payload == Payload(section)
                  flags == get_flags(section.entry1, Len(payload))
                  out == Emitted(flags, payload)
                  header == [section.header EXCEPT
                                !.pointer = Len(bytes),
                                !.size = Len(payload),
                                !.csize = Len(out),
                                !.chksum = Finish(ChecksumEngine(flags), payload),
                                !.flags = flags] IN
              WriteSections([secs EXCEPT ![h].header = header], Tail(order), bytes \o out)

\* Step 2: the aggregate over the rewritten table, the main header's own
\* record checksum included.
TableChecksum(secs, order, section_num) ==
    U32Add(MainHeaderChecksum(section_num),
           SumChecksums([i \in 1..Len(order) |-> Record(secs[order[i]].header)])).value

\* `MainHeader.section_num = count`
SavedSectionNum(c) == c

\* Container::save.
Save ==
    /\ halted = "no"
    /\ NoGuards
    /\ LET order == ByIndex(sections, DOMAIN sections)
           w == WriteSections(sections, order, backend.bytes) IN
        /\ Len(w.bytes) <= MaxFile
        /\ backend' = [backend EXCEPT !.bytes = w.bytes, !.pos = 0]
        /\ main_header' = [section_num |-> SavedSectionNum(count),
                           chksum |-> TableChecksum(w.sections, order,
                                                    SavedSectionNum(count))]
        /\ sections' = [h \in DOMAIN sections |-> [w.sections[h] EXCEPT !.modified = FALSE]]
    /\ modified' = FALSE
    /\ res' = Result("save", 0, "Ok", TRUE)
    /\ UNCHANGED <<count, next_handle, guards, everLive, halted, frame>>

\* A created or opened container whose sections are created, removed,
\* loaded and saved.
NextSave ==
    \/ \E header \in CreateHeaders : Create(header)
    \/ Remove
    \/ \E h \in DOMAIN sections : Load(h)
    \/ \E h \in AllHandles : DropGuard(h)
    \/ Save

SpecSave == Init /\ [][NextSave]_vars

Saved == res.op = "save" /\ res.result = "Ok"

\* C20: after every successful save main_header.section_num equals
\* sections().len(), which is the number of live sections, whatever creates
\* and removes came before.
C20_SectionNumIsLen ==
    Saved =>
        /\ main_header.section_num = len
        /\ main_header.section_num = Cardinality(Live)

\* A save after one of two sections was removed, a loaded payload rewritten.
C20_Witness ==
    /\ Saved
    /\ Cardinality(everLive) = 2
    /\ main_header.section_num = 1
    /\ Len(backend.bytes) > Len(BackendBytes)

\* ----------------------------------------------------- save and reopen
TripHeaders ==
    {Header(1, FLAG_COMPRESS_ZLIB, 0, 0, 0, 0),
     Header(2, FLAG_COMPRESS_XZ + FLAG_CHECK_CRC32, 0, 0, 0, 0)}

\* Container::create over an empty backend.
InitTrip == Init /\ backend.bytes = <<>>

\* Container::open on the backend a save has just written, then a load of
\* every section of the new container.
Reopen ==
    /\ halted = "no"
    /\ res.op = "save"
    /\ res.result = "Ok"
    /\ LET order == ByIndex(sections, DOMAIN sections)
           records == [i \in 1..Len(order) |-> Record(sections[order[i]].header)]
           t == ReadSectionHeaderTable(records, main_header,
                    MainHeaderChecksum(main_header.section_num), TRUE)
       IN  res' = [op |-> "reopen", handle |-> 0, io |-> TRUE, result |-> t.result,
                   table |-> t.sections,
                   loads |-> [i \in DOMAIN t.sections |->
                                 LoadSection1(backend, t.sections[i].header)]]
    /\ UNCHANGED <<sections, count, modified, next_handle, backend, guards,
                   everLive, halted, main_header, frame>>

\* A created container: sections are created, written through a borrow,
\* removed, saved, and the saved file is reopened.
NextTrip ==
    \/ \E header \in TripHeaders : Create(header)
    \/ Remove
    \/ \E h \in DOMAIN sections : Load(h)
    \/ \E h \in AllHandles : DropGuard(h)
    \/ \E h \in AllHandles, b \in {7} : WriteData(h, b)
    \/ Save
    \/ Reopen

SpecTrip == InitTrip /\ [][NextTrip]_vars

\* C21: saving a container and reopening the backend gives the same
\* section count and, at every index, the same header type, flags, size
\* and checksum and the same payload bytes; removed sections are absent.
C21_RoundTrip ==
    res.op = "reopen" =>
        /\ res.result = "Ok"
        /\ DOMAIN res.table = 0..(len - 1)
        /\ \A h \in Live :
            LET i == index(h) IN
            /\ i \in DOMAIN res.table
            /\ res.table[i].header.ty = sections[h].header.ty
            /\ res.table[i].header.flags = sections[h].header.flags
            /\ res.table[i].header.size = Len(Payload(sections[h]))
            /\ res.loads[i].result = "Ok"
            /\ res.loads[i].payload = Payload(sections[h])

\* ------------------------------------------------------- string section
MaxStr == 1
MaxData == 4

\* Strings without an embedded NUL, as their UTF-8 bytes.
Strings == UNION { [1..n -> {1, 2}] : n \in 0..MaxStr }

Addresses == 0..MaxData

\* low_level_read_string after the seek: bytes up to the first NUL, Eos when
\* a read does not return one byte.
RECURSIVE ReadChars(_, _)
ReadChars(buf, curs) ==
    LET r == BufRead(buf, 1) IN
    IF Len(r.bytes) /= 1 THEN [result |-> "Eos", value |-> <<>>, buf |-> r.buf]
    ELSE IF r.bytes[1] = 0 THEN [result |-> "Ok", value |-> curs, buf |-> r.buf]
    ELSE ReadChars(r.buf, Append(curs, r.bytes[1]))

low_level_read_string(ptr, string_section) ==
    ReadChars(BufSeek(string_section, ptr), <<>>)

\* low_level_write_string: the address is size(), the bytes go where the
\* cursor is.
low_level_write_string(s, string_section) ==
    [ptr |-> BufSize(string_section),
     buf |-> BufWrite(BufWrite(string_section, s), <<0>>)]

\* A StringSection over a loaded section: new and empty, or read from a
\* file (load leaves the cursor at 0).
InitStrings ==
    /\ InitUnopened
    /\ main_header = [section_num |-> 1, chksum |-> 0]
    /\ \E content \in {<<>>, <<1, 0>>, <<1, 0, 2, 0>>, <<1, 0, 2>>}, loaded \in BOOLEAN :
        frame = [pc |-> "strings",
                 loaded |-> loaded,
                 data |-> [byte_buf |-> content, position |-> 0,
                           cur_size |-> Len(content)],
                 cache |-> << >>,
                 puts |-> {}]

\* section.open(): None until the section is loaded.
SectionOpen(f) == IF f.loaded THEN <<f.data>> ELSE <<>>

\* load_string_section: section.load() of the string section.
LoadStringSection ==
    /\ frame.pc = "strings"
    /\ ~frame.loaded
    /\ frame' = [frame EXCEPT !.loaded = TRUE]
    /\ res' = [op |-> "load_string_section", handle |-> 0, io |-> TRUE, result |-> "Ok"]
    /\ UNCHANGED <<sections, count, modified, next_handle, backend, guards,
                   everLive, halted, main_header>>

\* StringSection::put
Put(s) ==
    /\ frame.pc = "strings"
    /\ IF SectionOpen(frame) = <<>>
       THEN /\ frame' = frame
            /\ res' = [op |-> "put", handle |-> 0, io |-> FALSE,
                       result |-> "SectionNotLoaded", address |-> 0, value |-> s]
       ELSE LET w == low_level_write_string(s, SectionOpen(frame)[1]) IN
            /\ Len(w.buf.byte_buf) <= MaxData
            /\ frame' = [frame EXCEPT
                            !.data = w.buf,
                            !.cache = [a \in DOMAIN frame.cache \cup {w.ptr} |->
                                          IF a = w.ptr THEN s ELSE frame.cache[a]],
                            !.puts = @ \cup {<<w.ptr, s>>}]
            /\ res' = [op |-> "put", handle |-> 0, io |-> TRUE, result |-> "Ok",
                       address |-> w.ptr, value |-> s]
    /\ UNCHANGED <<sections, count, modified, next_handle, backend, guards,
                   everLive, halted, main_header>>

CacheHitNever(cache, address) == FALSE

\* HashMap::entry(address) is Occupied.
CacheHit(cache, address) == address \in DOMAIN cache

\* StringSection::get
Get(address) ==
    /\ frame.pc = "strings"
    /\ IF CacheHit(frame.cache, address)
       THEN /\ res' = [op |-> "get", handle |-> 0, io |-> FALSE, result |-> "Ok",
                       address |-> address, value |-> frame.cache[address]]
            /\ frame' = frame
       ELSE IF SectionOpen(frame) = <<>>
       THEN /\ res' = [op |-> "get", handle |-> 0, io |-> FALSE,
                       result |-> "SectionNotLoaded", address |-> address,
                       value |-> <<>>]
            /\ frame' = frame
       ELSE LET r == low_level_read_string(address, SectionOpen(frame)[1]) IN
            /\ res' = [op |-> "get", handle |-> 0, io |-> TRUE,
                       result |-> r.result, address |-> address, value |-> r.value]
            /\ frame' = [frame EXCEPT
                            !.data = r.buf,
                            !.cache = IF r.result = "Ok"
                                      THEN [a \in DOMAIN frame.cache \cup {address} |->
                                               IF a = address THEN r.value
                                               ELSE frame.cache[a]]
                                      ELSE @]
    /\ UNCHANGED <<sections, count, modified, next_handle, backend, guards,
                   everLive, halted, main_header>>

\* The strings handed to put.
PutStrings == UNION { [1..n -> {1}] : n \in 0..MaxStr }

NextStrings ==
    \/ LoadStringSection
    \/ \E s \in PutStrings : Put(s)
    \/ \E address \in Addresses : Get(address)

SpecStrings == InitStrings /\ [][NextStrings]_vars

\* C22: a string put at address a is what get(a) returns, whatever puts
\* and gets were made on the StringSection before.
C22_PutGetRoundTrip ==
    res.op = "get" =>
        \A p \in frame.puts :
            p[1] = res.address => (res.result = "Ok" /\ res.value = p[2])

\* C33: put appends whatever the seek position of the section is: the
\* address it returns is the section size before the call, the bytes of s
\* and one NUL are stored from that address on, and every byte below the
\* address is left unchanged.
C33_PutAppends ==
    [][(res'.op = "put" /\ frame'.data /= frame.data) =>
        LET address == res'.address
            s == res'.value IN
        /\ address = BufSize(frame.data)
        /\ Len(frame'.data.byte_buf) >= address + Len(s) + 1
        /\ SubSeq(frame'.data.byte_buf, address + 1, address + Len(s) + 1) = s \o <<0>>
        /\ SubSeq(frame'.data.byte_buf, 1, address) = frame.data.byte_buf]_vars

\* No NUL byte between the address and the end of the section.
NoNul(buf, address) ==
    \A i \in (address + 1)..Len(buf.byte_buf) : buf.byte_buf[i] /= 0

\* C34: get and put fail with SectionNotLoaded on a string section that is
\* not loaded; a get that reads the section fails with Eos when no NUL
\* byte lies between the address and the end of the section; a failed get
\* leaves the cache as it was and a later get reads the section again; a
\* successful get or put caches the string under its address, and a get
\* of a cached address returns it without touching the section.
C34_GetPutErrorsAndCache ==
    [][res'.op \in {"get", "put"} =>
        LET address == res'.address
            hit == address \in DOMAIN frame.cache IN
        /\ ~frame.loaded => res'.result = "SectionNotLoaded"
        /\ (res'.op = "get" /\ ~hit /\ frame.loaded) =>
                (res'.result = "Eos" <=> NoNul(frame.data, address))
        /\ res'.result /= "Ok" => frame'.cache = frame.cache
        /\ res'.result = "Ok" =>
                /\ address \in DOMAIN frame'.cache
                /\ frame'.cache[address] = res'.value
        /\ (res'.op = "get" /\ hit) =>
                /\ res'.result = "Ok"
                /\ res'.value = frame.cache[address]
                /\ ~res'.io
                /\ frame'.data = frame.data
        /\ (res'.op = "get" /\ ~hit /\ frame.loaded) => res'.io]_vars

\* A get that failed with Eos on a loaded section whose cache already
\* holds a string.
C34_Witness ==
    /\ res.op = "get"
    /\ res.result = "Eos"
    /\ frame.loaded
    /\ res.address \notin DOMAIN frame.cache
    /\ frame.cache /= << >>

\* ---------------------------------------------------------- item tables
MaxItems == 2

\* The string section the tables read their names from: "\1" at 0, "" at
\* 1, "\2" at 2, "" at 3, and an unterminated string from 4 on.
NamesData == [byte_buf |-> <<1, 0, 2, 0, 1>>, position |-> 0, cur_size |-> 5]

\* The same section cut after its first string.
NamesCut == [byte_buf |-> <<1, 0>>, position |-> 0, cur_size |-> 2]

NameAddresses == 0..4

\* Items: an identity and the address of the name.
Items == [id : 1..2, name_address : NameAddresses]

ItemLists == UNION { [1..n -> Items] : n \in 0..MaxItems }

\* Item::get_name_address
get_name_address(item) == item.name_address

\* StringSection::get on a section with an empty cache.
NamesGet(names, address) == low_level_read_string(address, names)

MapInsertDropped(map, name, v) == map

\* HashMap::insert
MapInsert(map, name, v) ==
    [n \in DOMAIN map \cup {name} |-> IF n = name THEN v ELSE map[n]]

\* HashMap::get: Option<&T> as a sequence of length 0 or 1.
MapGet(map, name) == IF name \in DOMAIN map THEN <<map[name]>> ELSE <<>>

\* The loop of build_lookup_table: `?` returns the first error.
RECURSIVE BuildMap(_, _, _)
BuildMap(list, names, map) ==
    IF list = <<>> THEN [result |-> "Ok", map |-> map]
    ELSE LET name == NamesGet(names, get_name_address(Head(list))) IN
         IF name.result /= "Ok" THEN [result |-> name.result, map |-> << >>]
         ELSE BuildMap(Tail(list), names, MapInsert(map, name.value, Head(list)))

\* OnceCell::set: Ok(()) on an empty cell, Err(value) on a full one.
OnceCellSet(cell, value) ==
    IF cell = <<>> THEN [result |-> "Ok", cell |-> <<value>>]
    ELSE [result |-> "Err", cell |-> cell]

\* Result::unwrap_err panics on Ok.
UnwrapErrPanics(result) == result = "Ok"

\* NamedItemTable::build_lookup_table
NamedBuildLookupTable(list, cell, names) ==
    LET b == BuildMap(list, names, << >>) IN
    IF b.result /= "Ok" THEN [result |-> b.result, cell |-> cell]
    ELSE LET set == OnceCellSet(cell, b.map) IN
         IF UnwrapErrPanics(set.result) THEN [result |-> "Panic", cell |-> set.cell]
         ELSE [result |-> "Ok", cell |-> set.cell]

\* NamedItemTable::with_list(list), or NamedItemTable::empty().
InitNamed ==
    /\ InitUnopened
    /\ main_header = [section_num |-> 1, chksum |-> 0]
    /\ \/ \E list \in ItemLists : frame = [pc |-> "named", list |-> list, map |-> <<>>]
       \/ frame = [pc |-> "named", list |-> <<>>, map |-> << << >> >>]

\* NamedItemTable::find_by_name
FindByName(name) ==
    /\ frame.pc = "named"
    /\ halted = "no"
    /\ LET b == IF frame.map = <<>>
                THEN NamedBuildLookupTable(frame.list, frame.map, NamesData)
                ELSE [result |-> "Ok", cell |-> frame.map] IN
        /\ frame' = [frame EXCEPT !.map = b.cell]
        /\ halted' = IF b.result = "Panic" THEN "panic" ELSE halted
        /\ res' = [op |-> "find_by_name", handle |-> 0, io |-> FALSE,
                   result |-> b.result, name |-> name,
                   value |-> IF b.result = "Ok" THEN MapGet(b.cell[1], name) ELSE <<>>]
    /\ UNCHANGED <<sections, count, modified, next_handle, backend, guards,
                   everLive, main_header>>

\* NamedItemTable::push
NamedPush(name, item) ==
    /\ frame.pc = "named"
    /\ halted = "no"
    /\ Len(frame.list) < MaxItems
    /\ frame' = [frame EXCEPT
                    !.list = Append(@, item),
                    !.map = IF @ = <<>> THEN @ ELSE <<MapInsert(@[1], name, item)>>]
    /\ res' = [op |-> "push", handle |-> 0, io |-> FALSE, result |-> "Ok",
               name |-> name, value |-> <<Len(frame.list)>>]
    /\ UNCHANGED <<sections, count, modified, next_handle, backend, guards,
                   everLive, halted, main_header>>

\* Vec::remove(index): the elements after index move down by one.
VecRemove(list, at) ==
    [i \in 1..(Len(list) - 1) |-> IF i <= at THEN list[i] ELSE list[i + 1]]

\* NamedItemTable::remove: self.list.remove(index), the map is not touched.
NamedRemove(at) ==
    /\ frame.pc = "named"
    /\ halted = "no"
    /\ at < Len(frame.list)
    /\ frame' = [frame EXCEPT !.list = VecRemove(@, at)]
    /\ res' = [op |-> "remove", handle |-> 0, io |-> FALSE, result |-> "Ok",
               name |-> <<>>, value |-> <<at>>]
    /\ UNCHANGED <<sections, count, modified, next_handle, backend, guards,
                   everLive, halted, main_header>>

NextNamed ==
    \/ \E name \in Strings : FindByName(name)
    \/ \E at \in 0..(MaxItems - 1) : NamedRemove(at)
    \/ \E item \in Items :
        \E n \in {NamesGet(NamesData, get_name_address(item))} :
            n.result = "Ok" /\ NamedPush(n.value, item)

SpecNamed == InitNamed /\ [][NextNamed]_vars

\* The items of the list whose name, read from the string section, is name.
Named(list, names, name) ==
    {list[i] : i \in {j \in 1..Len(list) :
        LET n == NamesGet(names, get_name_address(list[j])) IN
        n.result = "Ok" /\ n.value = name}}

Unreadable(list, names) ==
    \E i \in 1..Len(list) : NamesGet(names, get_name_address(list[i])).result /= "Ok"

\* C23: find_by_name never panics; it fails only when a name cannot be
\* read, and otherwise returns Some(item) exactly when an item of the list
\* has the name.
C23_FindByNameBuildsOnDemand ==
    res.op = "find_by_name" =>
        /\ res.result /= "Panic"
        /\ res.result /= "Ok" => Unreadable(frame.list, NamesData)
        /\ res.result = "Ok" =>
            IF Named(frame.list, NamesData, res.name) = {}
            THEN res.value = <<>>
            ELSE Len(res.value) = 1
                 /\ res.value[1] \in Named(frame.list, NamesData, res.name)

\* C35: once the map is built, list and map stay consistent under push and
\* remove: find_by_name returns an item for a name iff an item with that
\* name is in the list, so a removed item is no longer found and a pushed
\* one is; push returns the position len() - 1 of the new item.
C35_ListAndMapConsistent ==
    (frame.pc = "named" /\ frame.map /= <<>>) =>
        /\ \A name \in Strings :
            LET found == MapGet(frame.map[1], name)
                named == Named(frame.list, NamesData, name) IN
            IF named = {} THEN found = <<>>
            ELSE Len(found) = 1 /\ found[1] \in named
        /\ res.op = "push" =>
            /\ res.value = <<Len(frame.list) - 1>>
            /\ MapGet(frame.map[1], res.name) = <<frame.list[Len(frame.list)]>>

\* ItemTable::new(list): the lookup map is not built.
InitItems ==
    /\ InitUnopened
    /\ main_header = [section_num |-> 1, chksum |-> 0]
    /\ \E list \in ItemLists : frame = [pc |-> "items", list |-> list, map |-> <<>>]

\* ItemTable::build_lookup_table with the given string section.
BuildLookupTable(names) ==
    /\ frame.pc = "items"
    /\ halted = "no"
    /\ LET b == BuildMap(frame.list, names, << >>) IN
        /\ frame' = [frame EXCEPT !.map = IF b.result = "Ok" THEN <<b.map>> ELSE @]
        /\ res' = [op |-> "build_lookup_table", handle |-> 0, io |-> FALSE,
                   result |-> b.result, names |-> names]
    /\ UNCHANGED <<sections, count, modified, next_handle, backend, guards,
                   everLive, halted, main_header>>

\* ItemTable::lookup
Lookup(name) ==
    /\ frame.pc = "items"
    /\ halted = "no"
    /\ IF frame.map = <<>>
       THEN /\ halted' = "panic"
            /\ res' = [op |-> "lookup", handle |-> 0, io |-> FALSE,
                       result |-> "Panic", name |-> name, value |-> <<>>]
       ELSE /\ halted' = halted
            /\ res' = [op |-> "lookup", handle |-> 0, io |-> FALSE,
                       result |-> "Ok", name |-> name,
                       value |-> MapGet(frame.map[1], name)]
    /\ UNCHANGED <<sections, count, modified, next_handle, backend, guards,
                   everLive, main_header, frame>>

NextItems ==
    \/ \E names \in {NamesData, NamesCut} : BuildLookupTable(names)
    \/ \E name \in Strings : Lookup(name)

SpecItems == InitItems /\ [][NextItems]_vars

\* C24: lookup panics exactly while no build_lookup_table has succeeded; a
\* failed build leaves the map as it was; a successful build makes
\* lookup(name) Some(item of that name) for the name of every item in the
\* list and None for any other name.
C24_LookupAfterBuild ==
    [][/\ res'.op = "lookup" =>
            (res'.result = "Panic" <=> frame.map = <<>>)
       /\ (res'.op = "build_lookup_table" /\ res'.result /= "Ok") =>
            (frame'.map = frame.map /\ Unreadable(frame.list, res'.names))
       /\ (res'.op = "build_lookup_table" /\ res'.result = "Ok") =>
            /\ frame'.map /= <<>>
            /\ \A name \in Strings :
                IF Named(frame.list, res'.names, name) = {}
                THEN MapGet(frame'.map[1], name) = <<>>
                ELSE /\ Len(MapGet(frame'.map[1], name)) = 1
                     /\ MapGet(frame'.map[1], name)[1]
                            \in Named(frame.list, res'.names, name)
      ]_vars

\* A lookup that finds an item after a build, in a list of two items.
C24_Witness ==
    /\ res.op = "lookup"
    /\ res.result = "Ok"
    /\ res.value /= <<>>
    /\ Len(frame.list) = 2
    /\ frame.list[1] /= res.value[1]

\* --------------------------------------------------- the section buffer
\* Buffers handed to write and read.
WriteBufs == {<<>>, <<1>>, <<2, 1>>}

\* InMemorySection::new: empty, with the greatest position a write has
\* ended at so far.
InitBuffer ==
    /\ InitUnopened
    /\ main_header = [section_num |-> 1, chksum |-> 0]
    /\ frame = [pc |-> "buffer", data |-> NewBuffer, high |-> 0]

\* InMemorySection::write
BufferWrite(bytes) ==
    /\ frame.pc = "buffer"
    /\ frame.data.position + Len(bytes) <= MaxData
    /\ LET data == BufWrite(frame.data, bytes) IN
        /\ frame' = [frame EXCEPT !.data = data, !.high = Max(@, data.position)]
        /\ res' = [op |-> "write", handle |-> 0, io |-> FALSE, result |-> "Ok",
                   value |-> bytes]
    /\ UNCHANGED <<sections, count, modified, next_handle, backend, guards,
                   everLive, halted, main_header>>

\* InMemorySection::seek(SeekFrom::Start(pos))
BufferSeek(pos) ==
    /\ frame.pc = "buffer"
    /\ frame' = [frame EXCEPT !.data = BufSeek(@, pos)]
    /\ res' = [op |-> "seek", handle |-> 0, io |-> FALSE, result |-> "Ok",
               value |-> <<pos>>]
    /\ UNCHANGED <<sections, count, modified, next_handle, backend, guards,
                   everLive, halted, main_header>>

\* InMemorySection::read into a buffer of n bytes
BufferRead(n) ==
    /\ frame.pc = "buffer"
    /\ LET r == BufRead(frame.data, n) IN
        /\ frame' = [frame EXCEPT !.data = r.buf]
        /\ res' = [op |-> "read", handle |-> 0, io |-> FALSE, result |-> "Ok",
                   value |-> r.bytes]
    /\ UNCHANGED <<sections, count, modified, next_handle, backend, guards,
                   everLive, halted, main_header>>

NextBuffer ==
    \/ \E bytes \in WriteBufs : BufferWrite(bytes)
    \/ \E pos \in 0..MaxData : BufferSeek(pos)
    \/ \E n \in 0..2 : BufferRead(n)

SpecBuffer == InitBuffer /\ [][NextBuffer]_vars

\* C25: size() is the greatest position a completed write has ended at: it
\* never decreases, seek and read leave it alone, a write ending below it
\* leaves it alone, and a read started at or past it returns 0 bytes.
C25_SizeIsHighWaterMark ==
    [][/\ BufSize(frame'.data) = frame'.high
       /\ BufSize(frame'.data) >= BufSize(frame.data)
       /\ res'.op \in {"seek", "read"} => BufSize(frame'.data) = BufSize(frame.data)
       /\ (res'.op = "write" /\ frame'.data.position < BufSize(frame.data)) =>
            BufSize(frame'.data) = BufSize(frame.data)
       /\ (res'.op = "read" /\ frame.data.position >= BufSize(frame.data)) =>
            (res'.result = "Ok" /\ res'.value = <<>>)
      ]_vars

\* A write that ended below the size, after a seek back.
C25_Witness ==
    /\ frame.pc = "buffer"
    /\ res.op = "write"
    /\ res.value /= <<>>
    /\ frame.data.position < BufSize(frame.data)

\* ---------------------------------------------------- the write flags
\* Flag bytes: the four flag bits and one bit the format does not define.
FlagBytes == 0..31

FlagBits == {1, 2, 4, 8, 16}

Thresholds == 0..2

Sizes == 0..3

\* A policy and a payload size about to be given to get_flags.
InitFlags ==
    /\ InitUnopened
    /\ main_header = [section_num |-> 1, chksum |-> 0]
    /\ \E flags \in FlagBytes, threshold \in Thresholds, size \in Sizes :
        frame = [pc |-> "flags", entry1 |-> SectionEntry1(threshold, flags),
                 size |-> size]

\* One call of SectionEntry1::get_flags.
GetFlags ==
    /\ frame.pc = "flags"
    /\ res' = [op |-> "get_flags", handle |-> 0, io |-> FALSE, result |-> "Ok",
               value |-> get_flags(frame.entry1, frame.size)]
    /\ frame' = [frame EXCEPT !.pc = "done"]
    /\ UNCHANGED <<sections, count, modified, next_handle, backend, guards,
                   everLive, halted, main_header>>

SpecFlags == InitFlags /\ [][GetFlags]_vars

\* C26: get_flags(size) is a subset of entry1.flags with at most one
\* checksum bit and at most one compression bit; it has a checksum bit iff
\* entry1.flags has one, and a compression bit iff entry1.flags has one
\* and size > threshold.
C26_GetFlags ==
    (frame.pc = "done" /\ res.op = "get_flags") =>
        LET in == frame.entry1.flags
            out == res.value
            check(f) == HasFlag(f, FLAG_CHECK_WEAK) \/ HasFlag(f, FLAG_CHECK_CRC32)
            compress(f) == HasFlag(f, FLAG_COMPRESS_XZ) \/ HasFlag(f, FLAG_COMPRESS_ZLIB) IN
        /\ \A bit \in FlagBits : HasFlag(out, bit) => HasFlag(in, bit)
        /\ ~(HasFlag(out, FLAG_CHECK_WEAK) /\ HasFlag(out, FLAG_CHECK_CRC32))
        /\ ~(HasFlag(out, FLAG_COMPRESS_XZ) /\ HasFlag(out, FLAG_COMPRESS_ZLIB))
        /\ check(out) <=> check(in)
        /\ compress(out) <=> (compress(in) /\ frame.size > frame.entry1.threshold)

\* Every bit set and a payload above the threshold: one bit of each pair
\* is kept.
C26_Witness ==
    /\ frame.pc = "done"
    /\ res.op = "get_flags"
    /\ frame.entry1.flags = 31
    /\ frame.size > frame.entry1.threshold
    /\ res.value = FLAG_CHECK_WEAK + FLAG_COMPRESS_XZ

\* ---------------------------------------------------- the modified flag
\* C27: an entry's modified flag is false when the entry is parsed or
\* created, becomes true on every successful load or open of its handle,
\* and is set by nothing else: not by a load or open that fails.
C27_ModifiedOnLoadOrOpen ==
    /\ \A h \in DOMAIN sections : ~sections[h].modified
    /\ [][/\ \A h \in DOMAIN sections' \ DOMAIN sections : ~sections'[h].modified
          /\ \A h \in DOMAIN sections' \cap DOMAIN sections :
                LET opened == /\ res'.op \in {"load", "open"}
                              /\ res'.handle = h
                              /\ res'.result = "Ok" IN
                /\ opened => sections'[h].modified
                /\ (sections'[h].modified /\ ~sections[h].modified) => opened
         ]_vars

\* A load that failed on an entry still unmodified, another entry being
\* modified.
C27_Witness ==
    /\ res.op = "load"
    /\ res.result \notin {"Ok", "SectionInUse"}
    /\ res.handle \in DOMAIN sections
    /\ ~sections[res.handle].modified
    /\ \E k \in DOMAIN sections : sections[k].modified

\* ------------------------------------------------------ the first decoder
DecoderHeaders ==
    ParsedHeaders \cup {Header(1, FLAG_COMPRESS_ZLIB, 0, 2, 2, 0),
                        Header(2, FLAG_CHECK_CRC32, 0, 2, 2, 0)}

DecoderRecordSeqs ==
    UNION { [1..n -> {Record(h) : h \in DecoderHeaders}] : n \in 0..MaxRecords }

\* The loop of Decoder::read_section_header_table from record i on: a short
\* table, an unsupported flag or the overflow of `final_checksum += checksum`
\* ends it.
RECURSIVE DecoderReadLoop(_, _, _, _, _, _)
DecoderReadLoop(records, i, n, acc, headers, overflow_checks) ==
    IF i > n THEN [result |-> "Ok", checksum |-> acc, sections |-> headers]
    ELSE IF i > Len(records) THEN [result |-> "Eos", checksum |-> acc, sections |-> headers]
    ELSE IF HasFlag(records[i].header.flags, FLAG_COMPRESS_ZLIB)
         \/ HasFlag(records[i].header.flags, FLAG_CHECK_CRC32)
    THEN [result |-> "Unsupported", checksum |-> acc, sections |-> headers]
    ELSE LET sum == U32Add(acc, records[i].chksum) IN
         IF sum.overflow /\ overflow_checks
         THEN [result |-> "Panic", checksum |-> acc, sections |-> headers]
         ELSE DecoderReadLoop(records, i + 1, n, sum.value,
                              Append(headers, records[i].header), overflow_checks)

\* Decoder::read_section_header_table
DecoderReadSectionHeaderTable(records, main, checksum, overflow_checks) ==
    LET r == DecoderReadLoop(records, 1, main.section_num, checksum, <<>>,
                             overflow_checks) IN
    IF r.result = "Ok" /\ r.checksum /= main.chksum
    THEN [r EXCEPT !.result = "Checksum"]
    ELSE r

\* A file about to be given to Decoder::new: its records, the main header's
\* own record checksum (small, or close to 2^32 as a long table leaves the
\* sum), and a stored aggregate that is right or wrong.
InitDecoder ==
    /\ InitUnopened
    /\ \E records \in DecoderRecordSeqs, n \in 0..MaxRecords :
        \E seed \in {MainHeaderChecksum(n), -1} :
        \E chksum \in {Aggregate(records, n, seed),
                       U32Add(Aggregate(records, n, seed), 1).value} :
            /\ main_header = [section_num |-> n, chksum |-> chksum]
            /\ frame = [pc |-> "new", records |-> records, checksum |-> seed,
                        headers |-> <<>>, sections_data |-> <<>>]

\* Decoder::new
DecoderNew ==
    /\ frame.pc = "new"
    /\ \E overflow_checks \in BOOLEAN :
        LET t == DecoderReadSectionHeaderTable(frame.records, main_header,
                                               frame.checksum, overflow_checks) IN
        /\ res' = [op |-> "new", handle |-> 0, io |-> TRUE, result |-> t.result]
        /\ halted' = IF t.result = "Panic" THEN "panic" ELSE halted
        /\ frame' = IF t.result = "Ok"
                    THEN [frame EXCEPT
                            !.pc = "decoder",
                            !.headers = t.sections,
                            !.sections_data = [i \in 1..main_header.section_num |-> <<>>]]
                    ELSE [frame EXCEPT !.pc = "failed"]
    /\ UNCHANGED <<sections, count, modified, next_handle, backend, guards,
                   everLive, main_header>>

CachedNever(sections_data, handle) == FALSE

\* The slot of the handle holds a section: get_or_insert_with_err returns
\* it without calling load_section.
Cached(sections_data, handle) == sections_data[handle + 1] /= <<>>

\* Decoder::open_section: get_or_insert_with_err(|| load_section(file, header))
OpenSection(handle) ==
    /\ frame.pc = "decoder"
    /\ handle < Len(frame.headers)
    /\ IF Cached(frame.sections_data, handle)
       THEN /\ res' = [op |-> "open_section", handle |-> handle, io |-> FALSE,
                       result |-> "Ok", value |-> frame.sections_data[handle + 1]]
            /\ frame' = frame
            /\ backend' = backend
       ELSE LET header == frame.headers[handle + 1]
                r == DecoderLoadSection(backend, header) IN
            /\ res' = [op |-> "open_section", handle |-> handle, io |-> TRUE,
                       result |-> r.result,
                       value |-> IF r.result = "Ok" THEN <<r.payload>> ELSE <<>>]
            /\ frame' = IF r.result = "Ok"
                        THEN [frame EXCEPT !.sections_data[handle + 1] = <<r.payload>>]
                        ELSE frame
            /\ backend' = [backend EXCEPT
                              !.pos = IF r.result = "Inflate" THEN header.pointer
                                      ELSE header.pointer + header.size]
    /\ UNCHANGED <<sections, count, modified, next_handle, guards,
                   everLive, halted, main_header>>

\* Decoder::find_section_by_index: self.sections.get(index), Option as a
\* sequence of length 0 or 1.
find_section_by_index(headers, i) == IF i < Len(headers) THEN <<i>> ELSE <<>>

DecoderFindSectionByIndex(i) ==
    /\ frame.pc = "decoder"
    /\ res' = [op |-> "find_section_by_index", handle |-> i, io |-> FALSE,
               result |-> "Ok", found |-> find_section_by_index(frame.headers, i)]
    /\ UNCHANGED <<sections, count, modified, next_handle, backend, guards,
                   everLive, halted, main_header, frame>>

NextDecoder ==
    \/ DecoderNew
    \/ \E handle \in 0..(MaxRecords - 1) : OpenSection(handle)
    \/ \E i \in 0..MaxRecords : DecoderFindSectionByIndex(i)

SpecDecoder == InitDecoder /\ [][NextDecoder]_vars

Unsupported(header) ==
    HasFlag(header.flags, FLAG_COMPRESS_ZLIB) \/ HasFlag(header.flags, FLAG_CHECK_CRC32)

\* C28: Decoder::new fails with Unsupported when a header of the table
\* carries FLAG_COMPRESS_ZLIB or FLAG_CHECK_CRC32, whatever the aggregate
\* checksum; after a successful Decoder::new no section carries either
\* flag and open_section never returns Unsupported.
C28_UnsupportedAtNew ==
    /\ (res.op = "new" /\ main_header.section_num <= Len(frame.records)) =>
        ((\E i \in 1..main_header.section_num : Unsupported(frame.records[i].header))
            => res.result = "Unsupported")
    /\ frame.pc = "decoder" =>
        /\ \A i \in 1..Len(frame.headers) : ~Unsupported(frame.headers[i])
        /\ res.op = "open_section" => res.result /= "Unsupported"

\* C29 as stated: loading a header of size 0 reads no payload byte, returns
\* a buffer of size 0 and computes the checksum 0, so it succeeds iff no
\* checksum flag is set or header.chksum is 0.
C29_EmptyLoad ==
    (Loaded /\ frame.header.size = 0) =>
        /\ backend.pos = frame.header.pointer
        /\ res.payload = <<>>
        /\ res.computed = 0
        /\ res.result = "Ok" <=> (Verified(frame.header.flags) => frame.header.chksum = 0)
        /\ res.result = "Ok" => BufSize(res.data) = 0

\* C29: loading a header of size 0 without a compression flag reads no
\* payload byte, computes the checksum 0 and returns a buffer of size 0,
\* succeeding iff no checksum flag is set or header.chksum is 0; with a
\* compression flag the inflater consumes header.csize bytes whatever
\* header.size says, and the load is verified on what they inflate to.
C29_EmptyUncompressedLoad ==
    (Loaded /\ frame.header.size = 0) =>
        IF ~Compressed(frame.header.flags)
        THEN /\ backend.pos = frame.header.pointer
             /\ res.payload = <<>>
             /\ res.computed = 0
             /\ res.result = "Ok" <=>
                    (Verified(frame.header.flags) => frame.header.chksum = 0)
             /\ res.result = "Ok" => BufSize(res.data) = 0
        ELSE /\ res.result /= "Inflate" =>
                    backend.pos = frame.header.pointer + frame.header.csize
             /\ res.result = "Ok" =>
                    /\ BufSize(res.data) = Len(res.payload)
                    /\ Verified(frame.header.flags) => frame.header.chksum = res.computed

C29_Witness ==
    /\ Loaded
    /\ frame.header.size = 0
    /\ frame.header.pointer = 1
    /\ frame.header.flags = FLAG_CHECK_CRC32
    /\ frame.header.chksum = 0
    /\ res.result = "Ok"
    /\ res.engine = "Crc32"
    /\ BufSize(res.data) = 0

\* ------------------------------------------- create after opening
Opened == frame.pc = "done" /\ res.op = "read_table" /\ res.result = "Ok"

\* The first create on the table of a container that was just opened.
FirstCreate(header) ==
    /\ Opened
    /\ Create(header)

NextOpenCreate ==
    \/ OpenTable
    \/ \E header \in CreateHeaders : FirstCreate(header)

SpecOpenCreate == InitFile /\ [][NextOpenCreate]_vars

Created == frame.pc = "done" /\ res.op = "create"

\* C30: read_section_header_table for section_num = N returns N header-only
\* entries under the handles 0..N-1, handle i with index i, no data, not
\* modified and entry1.flags equal to its header's flags, and N as the next
\* handle; the first create after opening returns handle N with index N.
C30_TableAsRead ==
    LET N == main_header.section_num IN
    /\ (Opened \/ Created) =>
        /\ \A i \in 0..(N - 1) :
            /\ i \in DOMAIN sections
            /\ sections[i].header = frame.records[i + 1].header
            /\ sections[i].index = i
            /\ sections[i].data = <<>>
            /\ sections[i].modified = FALSE
            /\ sections[i].entry1.flags = sections[i].header.flags
    /\ Opened =>
        /\ DOMAIN sections = 0..(N - 1)
        /\ next_handle = N
    /\ Created =>
        /\ res.handle = N
        /\ DOMAIN sections = 0..N
        /\ sections[N].index = N
        /\ next_handle = N + 1

C30_Witness ==
    /\ Created
    /\ main_header.section_num = 2
    /\ res.handle = 2
    /\ sections[2].index = 2
    /\ sections[1].index = 1
    /\ sections[1].entry1.flags = FLAG_CHECK_WEAK + FLAG_COMPRESS_XZ

\* ------------------------------------------------------ package objects
MaxSections == 2
MaxObject == 3

DATA_READ_BUFFER_SIZE == 8192

\* Loaded sections of a package: the header's size and the loaded data,
\* which a header that overstates its size leaves shorter.
DataSections ==
    { [size |-> 2, data |-> <<1, 2>>], [size |-> 1, data |-> <<3>>],
      [size |-> 0, data |-> <<>>], [size |-> 2, data |-> <<4>>] }

SectionLists == UNION { [1..n -> DataSections] : n \in 0..MaxSections }

\* ObjectHeader: start section index, offset in it, size in bytes.
ObjectHeaders == [start : 0..MaxSections, offset : 0..MaxObject, size : 0..MaxObject]

\* The loop of load_from_section: `while len < size`, one read of at most
\* DATA_READ_BUFFER_SIZE bytes per turn. A read of 0 bytes leaves every
\* variable of the loop as it was, so the loop never ends.
RECURSIVE LoadLoop(_, _, _, _)
LoadLoop(data, n, size, out) ==
    IF ~(n < size) THEN [result |-> "Ok", value |-> n, out |-> out]
    ELSE LET s == Min(size - n, DATA_READ_BUFFER_SIZE)
             r == BufRead(data, s)
             val == Len(r.bytes) IN
         IF val = 0 THEN [result |-> "Hang", value |-> n, out |-> out]
         ELSE LoadLoop(r.buf, n + val, size, out \o r.bytes)

\* load_from_section: seek to offset, then the loop.
load_from_section(section, offset, size) ==
    LoadLoop(BufSeek([byte_buf |-> section.data, position |-> 0,
                      cur_size |-> Len(section.data)], offset),
             0, size, <<>>)

\* Container::find_section_by_index: Option as a sequence of length 0 or 1.
FindSectionByIndex(list, section_id) ==
    IF section_id < Len(list) THEN <<section_id>> ELSE <<>>

\* `Ok(obj.size)`: the value unpack_object returns.
UnpackReturned(obj, written) == obj.size

\* unpack in package::utils: `if size != s { return Err(Eos) }`.
UnpackOutcome(size, s) == IF size /= s THEN "Eos" ELSE "Ok"

InitUnpack ==
    /\ InitUnopened
    /\ main_header = [section_num |-> 1, chksum |-> 0]
    /\ \E list \in SectionLists, obj \in ObjectHeaders :
        frame = [pc |-> "loop", list |-> list, obj |-> obj,
                 section_id |-> obj.start, offset |-> obj.offset,
                 remaining |-> obj.size, out |-> <<>>]

\* One turn of `while len > 0` in unpack_object with a section found.
\* `section.size - offset` with offset > section.size panics when
\* overflow is checked and wraps to a value above every object size
\* otherwise.
UnpackSection ==
    /\ frame.pc = "loop"
    /\ frame.remaining > 0
    /\ FindSectionByIndex(frame.list, frame.section_id) /= <<>>
    /\ \E overflow_checks \in BOOLEAN :
        LET section == frame.list[frame.section_id + 1]
            underflow == frame.offset > section.size
            want == IF underflow THEN frame.remaining
                    ELSE Min(section.size - frame.offset, frame.remaining)
            r == load_from_section(section, frame.offset, want) IN
        IF underflow /\ overflow_checks
        THEN /\ frame' = [frame EXCEPT !.pc = "panic"]
             /\ halted' = "panic"
        ELSE IF r.result = "Hang"
        THEN /\ frame' = [frame EXCEPT !.pc = "hang", !.out = @ \o r.out]
             /\ halted' = halted
        ELSE /\ frame' = [frame EXCEPT
                            !.remaining = @ - r.value,
                            !.offset = 0,
                            !.section_id = @ + 1,
                            !.out = @ \o r.out]
             /\ halted' = halted
    /\ UNCHANGED <<sections, count, modified, next_handle, backend, guards, res,
                   everLive, main_header>>

\* The loop ends (len is 0 or no section has the index): Ok(obj.size), and
\* the comparison unpack makes with the object's size.
UnpackObjectReturn ==
    /\ frame.pc = "loop"
    /\ frame.remaining = 0 \/ FindSectionByIndex(frame.list, frame.section_id) = <<>>
    /\ frame' = [frame EXCEPT !.pc = "done"]
    /\ LET s == UnpackReturned(frame.obj, Len(frame.out)) IN
        res' = [op |-> "unpack_object", handle |-> 0, io |-> TRUE, result |-> "Ok",
                value |-> s, unpack |-> UnpackOutcome(frame.obj.size, s)]
    /\ UNCHANGED <<sections, count, modified, next_handle, backend, guards,
                   everLive, halted, main_header>>

NextUnpack == UnpackSection \/ UnpackObjectReturn

SpecUnpack == InitUnpack /\ [][NextUnpack]_vars

\* The bytes of the sections from index i on, the first one from offset.
RECURSIVE ObjectStream(_, _, _)
ObjectStream(list, i, offset) ==
    IF i >= Len(list) THEN <<>>
    ELSE SubSeq(list[i + 1].data, offset + 1, Len(list[i + 1].data))
         \o ObjectStream(list, i + 1, 0)

\* C36: unpack_object writes the object's bytes, taken from section
\* obj.start at obj.offset and from offset 0 of the following sections,
\* and returns the number of bytes it wrote; when the sections run out
\* before obj.size bytes the count is smaller than obj.size and unpack
\* reports Eos.
C36_ReturnsBytesWritten ==
    (frame.pc = "done" /\ res.op = "unpack_object") =>
        LET stream == ObjectStream(frame.list, frame.obj.start, frame.obj.offset) IN
        /\ frame.out = SubSeq(stream, 1, Min(Len(stream), frame.obj.size))
        /\ res.value = Len(frame.out)
        /\ Len(frame.out) < frame.obj.size => res.unpack = "Eos"

\* C37: unpack_object terminates: it never underflows `section.size -
\* offset` and never enters a read loop that cannot end, whatever the
\* object header and the sections are.
C37_UnpackTerminates ==
    frame.pc \notin {"panic", "hang"}

\* C38: open_section loads a section at most once per successful load: a
\* handle whose slot is filled is answered from the slot without backend
\* I/O; a failed load returns the error and leaves the slot empty, so the
\* next open_section of the handle loads again; find_section_by_index(i)
\* is Some(i) iff i is less than the number of sections.
C38_OpenSectionCaches ==
    [][/\ res'.op = "open_section" =>
            LET h == res'.handle
                filled == frame.sections_data[h + 1] /= <<>> IN
            /\ filled =>
                /\ res'.result = "Ok"
                /\ res'.value = frame.sections_data[h + 1]
                /\ ~res'.io
                /\ backend' = backend
                /\ frame'.sections_data = frame.sections_data
            /\ ~filled =>
                /\ res'.io
                /\ res'.result = "Ok" => frame'.sections_data[h + 1] = res'.value
                /\ res'.result /= "Ok" => frame'.sections_data = frame.sections_data
                /\ \A k \in 1..Len(frame.headers) :
                    k /= h + 1 => frame'.sections_data[k] = frame.sections_data[k]
       /\ res'.op = "find_section_by_index" =>
            (res'.found = IF res'.handle < main_header.section_num
                          THEN <<res'.handle>> ELSE <<>>)]_vars

\* A handle answered from its slot while another handle's load has failed
\* and left its slot empty.
C38_Witness ==
    /\ frame.pc = "decoder"
    /\ res.op = "open_section"
    /\ res.result = "Ok"
    /\ ~res.io
    /\ \E k \in 1..Len(frame.headers) :
        /\ frame.sections_data[k] = <<>>
        /\ DecoderLoadSection(backend, frame.headers[k]).result /= "Ok"

====
